---- MODULE Spec2Model ----
(***************************************************************************)
(* Model of the cartridge dumper firmware: the Dump Engine task            *)
(* (src/src/dumper/dumper.rs), the MTP Protocol Engine task                *)
(* (src/src/usb/mtp.rs) and the two single-slot channels between them.     *)
(***************************************************************************)
EXTENDS Integers, Sequences, FiniteSets, TLC

VARIABLES
    cmdQ,      \* channel Protocol Engine -> Dump Engine (mtp.out_channel, dumper.in_channel)
    dataQ,     \* channel Dump Engine -> Protocol Engine (dumper.out_channel, mtp.in_channel)
    dpc,       \* Dump Engine: the await it is suspended at
    dcfg,      \* Dump Engine: DumperClass.config
    dconsole,  \* Dump Engine: console of the running dump
    dbank,     \* Dump Engine: bank loop index of the running dump
    dchunk,    \* Dump Engine: chunk loop index inside the bank window
    dsnes,     \* Dump Engine: (num_banks, rom_type) returned by get_cart_info_snes
    dmon,      \* history: order of the messages sent by the running dump
    winCap,    \* number of 32-byte chunks modelled per bank window
    mpc,       \* Protocol Engine: the await it is suspended at
    req,       \* Protocol Engine: the request being (or last) handled
    moff,      \* Protocol Engine: offset into the packet buffer (ROM transfer)
    mlen,      \* Protocol Engine: declared length of the ROM data container, -1 before SetupData
    pkts,      \* history: packets written since the request was read
    res,       \* history: outcome of the request's data phase
    deleted,   \* MtpClass.configuration_file_deleted
    cfgFile,   \* MtpClass.configuration_file[..configuration_file_size]
    cfgStep,   \* Protocol Engine: index of the next ConfigChanged message to send
    outstanding, \* history: Starts sent whose End the Protocol Engine has not consumed
    session,   \* the host: the kind of session it runs against the device
    dataOut,   \* the host: the data-out phase read for the request being handled
    fn,        \* a routine of the Dump Engine run on its own: its name
    input,     \* the arguments it is called with
    output,    \* what it has returned or done so far
    bus        \* the Bus Controller seen at the level of pin operations

vars == <<cmdQ, dataQ, dpc, dcfg, dconsole, dbank, dchunk, dsnes, dmon, winCap,
          mpc, req, moff, mlen, pkts, res, deleted, cfgFile, cfgStep, outstanding,
          session, dataOut, fn, input, output, bus>>

dumperVars == <<dpc, dcfg, dconsole, dbank, dchunk, dsnes, dmon>>
mtpVars == <<mpc, req, moff, mlen, pkts, res, deleted, cfgFile, cfgStep>>
fixedVars == <<winCap, session, fn, input, output, bus>>
envVars == <<fixedVars, dataOut>>
sysVars == <<cmdQ, dataQ, dumperVars, mtpVars, winCap, session, dataOut, outstanding>>

----------------------------------------------------------------------------
(* Bounds of the model *)

MaxWindowChunks == 2     \* chunks modelled per bank window in the composed system
MaxFailures == 1         \* failed packet writes per statically generated transfer
MaxTid == 2              \* transaction ids the host uses

(* Program constants *)

CHANNEL_CAPACITY == 1
DATA_CHANNEL_SIZE == 32
MAX_PACKET_SIZE == 64
HEADER_LEN == 12

Min(a, b) == IF a < b THEN a ELSE b
Pow2(n) == 2 ^ n

----------------------------------------------------------------------------
(* Channel<CriticalSectionRawMutex, Msg, 1> *)

ChannelCanSendOpen(q) == TRUE
ChannelCanSend(q) == Len(q) < CHANNEL_CAPACITY
ChannelSend(q, m) == Append(q, m)
ChannelCanReceive(q) == Len(q) > 0

(* enum Msg *)
MsgStart(console) == [kind |-> "Start", console |-> console]
MsgSetup(size) == [kind |-> "DumpSetupData", rom_size |-> size]
MsgChanged(field, value) == [kind |-> "DumpSetupDataChanged", field |-> field, value |-> value]
MsgData(length, src) == [kind |-> "Data", length |-> length, src |-> src]
MsgEnd == [kind |-> "End"]

----------------------------------------------------------------------------
(* Dump Engine: sizes of the regions a dump reads *)

CeilDiv(a, b) == (a + b - 1) \div b

\* for address in (from..to).step_by(DATA_CHANNEL_SIZE): number of iterations,
\* cut at the modelled window length
WindowChunks(bytes, cap) == Min(CeilDiv(bytes, DATA_CHANNEL_SIZE), cap)

DefaultConfig == [mapper |-> 1, prgsize |-> 3, chrsize |-> 0, prg |-> 128, chr |-> 0]

\* read_prg: number of bank windows dumped
PrgBanks(mapper, size) ==
    CASE mapper = 0 -> 1
      [] mapper = 1 -> IF size = 1 THEN 1 ELSE Pow2(size % 8) % 256
      [] mapper = 4 -> (Pow2(size % 16) * 2) % 65536
      [] OTHER -> 0

\* read_prg: bytes of one bank window (to - from of dump_bank_prg)
PrgWindow(mapper, size) ==
    CASE mapper = 0 -> (16384 * (Pow2(size % 16) % 65536)) % 65536
      [] mapper = 1 -> IF size = 1 THEN 32768 ELSE 16384
      [] mapper = 4 -> 8192
      [] OTHER -> 0

\* read_prg: panic!("Address overflow")
PrgPanics(mapper, size) == mapper = 4 /\ PrgBanks(mapper, size) > 256

\* read_chr: number of bank windows dumped
ChrBanks(mapper, size) ==
    CASE mapper = 0 -> 1
      [] mapper = 4 -> (Pow2(size % 16) * 4) % 65536
      [] OTHER -> 0

\* read_chr: bytes of one bank window
ChrWindow(mapper, size) ==
    CASE mapper = 0 -> 8192
      [] mapper = 4 -> 1024
      [] OTHER -> 0

ChrPanics(mapper, size) == mapper = 4 /\ ChrBanks(mapper, size) > 256

\* dump_nes: rom_size announced in DumpSetupData
NesRomSize(cfg) == ((cfg.prg + cfg.chr) * 1024) + 16

SnesRomTypeNoExHiRom(v) ==
    CASE v = 58 -> 1
      [] (v \div 32) # 1 -> 0
      [] OTHER -> v % 2
\* check_cart_snes: rom_type from the header byte at 0xFFD5
SnesRomType(v) ==
    CASE v = 53 -> 4
      [] v = 58 -> 1
      [] (v \div 32) # 1 -> 0
      [] OTHER -> v % 2

\* check_cart_snes: num_banks from the header byte at 0xFFD7 and rom_type;
\* `rom_size as usize * 1024 * 1024 / 8` is below 2^32 up to exponent 11 and
\* wraps to 0 from exponent 12 on (the division by 8 is folded into the
\* second factor, which is exact)
SnesNumBanks(b, romType) ==
    LET exp == (b - 7) % 256
        romSize == IF exp < 31 THEN Pow2(exp) ELSE 0
        bytes == IF exp < 12 THEN romSize * 1024 * (1024 \div 8) ELSE 0
    IN (bytes \div (32768 + romType * 32768)) % 256

\* dump_snes: rom_size announced in DumpSetupData
SnesRomSize(numBanks, romType) ==
    CASE romType = 0 -> (65536 - 32768) * numBanks
      [] romType = 1 -> 65536 * numBanks
      [] OTHER -> 0

\* read_rom_snes: number of banks visited (start..end in u8)
SnesBanks(numBanks, romType) ==
    CASE romType = 0 -> numBanks
      [] romType = 1 -> IF ((numBanks + 192) % 256) > 192
                        THEN ((numBanks + 192) % 256) - 192 ELSE 0
      [] OTHER -> 0

\* read_lo_rom_banks / read_hi_rom_banks: bytes of one bank window
SnesWindow(romType) == IF romType = 0 THEN 32768 ELSE 65536

----------------------------------------------------------------------------
(* Dump Engine: order of the messages of one dump (history) *)

MonStep(m, kind) ==
    CASE kind = "Start" -> IF m \in {"idle", "ended"} THEN "started" ELSE "bad"
      [] kind = "DumpSetupData" -> IF m = "started" THEN "setup" ELSE "bad"
      [] kind = "Data" -> IF m \in {"setup", "data"} THEN "data" ELSE "bad"
      [] kind = "End" -> IF m \in {"setup", "data"} THEN "ended" ELSE "bad"
      [] OTHER -> m

----------------------------------------------------------------------------
(* Dump Engine: the position after each send *)

DPos(pc, bank, chunk) == [pc |-> pc, bank |-> bank, chunk |-> chunk]

\* dump_nes after read_prg: read_chr only if chrsize > 0, then End
EnterChr(cfg, cap) ==
    IF cfg.chrsize = 0 THEN DPos("end", 0, 0)
    ELSE IF ChrPanics(cfg.mapper, cfg.chrsize) THEN DPos("panic", 0, 0)
    ELSE IF ChrBanks(cfg.mapper, cfg.chrsize) = 0
            \/ WindowChunks(ChrWindow(cfg.mapper, cfg.chrsize), cap) = 0
         THEN DPos("end", 0, 0)
         ELSE DPos("chr", 0, 0)

\* dump_nes after the header chunk: read_prg
EnterPrg(cfg, cap) ==
    IF PrgPanics(cfg.mapper, cfg.prgsize) THEN DPos("panic", 0, 0)
    ELSE IF PrgBanks(cfg.mapper, cfg.prgsize) = 0
            \/ WindowChunks(PrgWindow(cfg.mapper, cfg.prgsize), cap) = 0
         THEN EnterChr(cfg, cap)
         ELSE DPos("prg", 0, 0)

\* the loops of read_prg / dump_bank_prg after one dump_prg
AfterPrg(cfg, cap, bank, chunk) ==
    IF chunk + 1 < WindowChunks(PrgWindow(cfg.mapper, cfg.prgsize), cap)
    THEN DPos("prg", bank, chunk + 1)
    ELSE IF bank + 1 < PrgBanks(cfg.mapper, cfg.prgsize)
         THEN DPos("prg", bank + 1, 0)
         ELSE EnterChr(cfg, cap)

AfterChrNoEnd(cfg, cap, bank, chunk) == DPos("recv", 0, 0)
\* the loops of read_chr / dump_bank_chr after one dump_chr
AfterChr(cfg, cap, bank, chunk) ==
    IF chunk + 1 < WindowChunks(ChrWindow(cfg.mapper, cfg.chrsize), cap)
    THEN DPos("chr", bank, chunk + 1)
    ELSE IF bank + 1 < ChrBanks(cfg.mapper, cfg.chrsize)
         THEN DPos("chr", bank + 1, 0)
         ELSE DPos("end", 0, 0)

\* read_rom_snes after DumpSetupData
EnterSnes(info, cap) ==
    IF SnesBanks(info.num_banks, info.rom_type) = 0
       \/ WindowChunks(SnesWindow(info.rom_type), cap) = 0
    THEN DPos("end", 0, 0)
    ELSE DPos("snes", 0, 0)

\* the loops of read_lo_rom_banks / read_hi_rom_banks after one chunk
AfterSnes(info, cap, bank, chunk) ==
    IF chunk + 1 < WindowChunks(SnesWindow(info.rom_type), cap)
    THEN DPos("snes", bank, chunk + 1)
    ELSE IF bank + 1 < SnesBanks(info.num_banks, info.rom_type)
         THEN DPos("snes", bank + 1, 0)
         ELSE DPos("end", 0, 0)


----------------------------------------------------------------------------
(* Dump Engine: configuration updates (DumperClass::dump, DumpSetupDataChanged arm) *)

DUMP_SETUP_DATA_CHANGED_LENGTH == 16

\* a field name copied into a zeroed [u8; 16]: the name and the NUL bytes after it
PaddedField(name, length) == <<name, DUMP_SETUP_DATA_CHANGED_LENGTH - length>>

\* u16::to_ne_bytes / u16::from_ne_bytes on the little-endian target
ToNeBytesBigEndian(v) == <<v \div 256, v % 256>>
ToNeBytes(v) == <<v % 256, v \div 256>>
FromNeBytes(b) == b[1] + 256 * b[2]

\* every arm overwriting the whole configuration
ApplyConfigChangedWhole(cfg, field, value) ==
    [mapper |-> value[1], prgsize |-> value[1], chrsize |-> value[1],
     prg |-> value[1], chr |-> value[1]]
ApplyConfigChanged(cfg, field, value) ==
    CASE field = <<"mapper", 10>> -> [cfg EXCEPT !.mapper = value[1]]
      [] field = <<"prgsize", 9>> -> [cfg EXCEPT !.prgsize = value[1]]
      [] field = <<"chrsize", 9>> -> [cfg EXCEPT !.chrsize = value[1]]
      [] field = <<"prg", 13>> -> [cfg EXCEPT !.prg = FromNeBytes(value)]
      [] field = <<"chr", 13>> -> [cfg EXCEPT !.chr = FromNeBytes(value)]
      [] OTHER -> cfg

----------------------------------------------------------------------------
(* Dump Engine task: DumperClass::dump *)

\* header bytes the cartridge returns at 0xFFD5 and 0xFFD7
SnesTypeBytes == {32, 33, 53}
SnesSizeBytes == {7, 8}

\* panic_halt: a panic in either task stops the firmware
Running == dpc # "panic" /\ mpc # "panic"

SetPos(p) == dpc' = p.pc /\ dbank' = p.bank /\ dchunk' = p.chunk

\* self.out_channel.send(m).await
DSend(m) ==
    /\ ChannelCanSend(dataQ)
    /\ dataQ' = ChannelSend(dataQ, m)
    /\ dmon' = MonStep(dmon, m.kind)

NesSetupMsg(cfg) == MsgSetup(NesRomSize(cfg))
NesHeaderNibbleNotShifted(cfg) ==
    <<78, 69, 83, 26, (cfg.prg \div 16) % 256, (cfg.chr \div 8) % 256, cfg.mapper % 16>>
    \o [i \in 1..9 |-> 0]
\* dump_nes: buffer[0..16]; `as u8` keeps the low eight bits
NesHeader(cfg) ==
    <<78, 69, 83, 26, (cfg.prg \div 16) % 256, (cfg.chr \div 8) % 256,
      ((cfg.mapper % 16) * 16) % 256>>
    \o [i \in 1..9 |-> 0]
NesHeaderMsg(cfg) == MsgData(16, NesHeader(cfg))

\* receive Msg::Start { console: Nes }: dump_nes up to its first send
DumpStartNes ==
    /\ Running /\ dpc = "recv"
    /\ ChannelCanReceive(cmdQ)
    /\ Head(cmdQ).kind = "Start" /\ Head(cmdQ).console = "Nes"
    /\ cmdQ' = Tail(cmdQ)
    /\ dconsole' = "Nes"
    /\ dmon' = MonStep(dmon, "Start")
    /\ SetPos(DPos("setup", 0, 0))
    /\ UNCHANGED <<dataQ, dcfg, dsnes, envVars, outstanding>>
    /\ UNCHANGED mtpVars

\* receive Msg::Start { console: Snes }: dump_snes up to its first send
\* (get_cart_info_snes reads the cartridge header)
DumpStartSnes ==
    /\ Running /\ dpc = "recv"
    /\ ChannelCanReceive(cmdQ)
    /\ Head(cmdQ).kind = "Start" /\ Head(cmdQ).console = "Snes"
    /\ cmdQ' = Tail(cmdQ)
    /\ dconsole' = "Snes"
    /\ dmon' = MonStep(dmon, "Start")
    /\ \E v \in SnesTypeBytes, b \in SnesSizeBytes :
          dsnes' = [num_banks |-> SnesNumBanks(b, SnesRomType(v)),
                    rom_type |-> SnesRomType(v)]
    /\ SetPos(DPos("setup", 0, 0))
    /\ UNCHANGED <<dataQ, dcfg, envVars, outstanding>>
    /\ UNCHANGED mtpVars

\* receive Msg::DumpSetupDataChanged { field, value }
DumpConfigChanged ==
    /\ Running /\ dpc = "recv"
    /\ ChannelCanReceive(cmdQ)
    /\ Head(cmdQ).kind = "DumpSetupDataChanged"
    /\ cmdQ' = Tail(cmdQ)
    /\ dcfg' = ApplyConfigChanged(dcfg, Head(cmdQ).field, Head(cmdQ).value)
    /\ UNCHANGED <<dataQ, dpc, dconsole, dbank, dchunk, dsnes, dmon, envVars, outstanding>>
    /\ UNCHANGED mtpVars

\* send Msg::DumpSetupData (dump_nes, dump_snes)
DumpSendSetup ==
    /\ Running /\ dpc = "setup"
    /\ IF dconsole = "Nes"
       THEN DSend(NesSetupMsg(dcfg)) /\ SetPos(DPos("header", 0, 0))
       ELSE DSend(MsgSetup(SnesRomSize(dsnes.num_banks, dsnes.rom_type)))
            /\ SetPos(EnterSnes(dsnes, winCap))
    /\ UNCHANGED <<cmdQ, dcfg, dconsole, dsnes, envVars, outstanding>>
    /\ UNCHANGED mtpVars

\* dump_nes: the 16-byte header chunk, then read_prg up to its first send
DumpSendHeader ==
    /\ Running /\ dpc = "header"
    /\ DSend(NesHeaderMsg(dcfg))
    /\ SetPos(EnterPrg(dcfg, winCap))
    /\ UNCHANGED <<cmdQ, dcfg, dconsole, dsnes, envVars, outstanding>>
    /\ UNCHANGED mtpVars

\* dump_prg: one chunk of the PRG window
DumpSendPrg ==
    /\ Running /\ dpc = "prg"
    /\ DSend(MsgData(DATA_CHANNEL_SIZE, <<"prg", dbank, dchunk>>))
    /\ SetPos(AfterPrg(dcfg, winCap, dbank, dchunk))
    /\ UNCHANGED <<cmdQ, dcfg, dconsole, dsnes, envVars, outstanding>>
    /\ UNCHANGED mtpVars

\* dump_chr: one chunk of the CHR window
DumpSendChr ==
    /\ Running /\ dpc = "chr"
    /\ DSend(MsgData(DATA_CHANNEL_SIZE, <<"chr", dbank, dchunk>>))
    /\ SetPos(AfterChr(dcfg, winCap, dbank, dchunk))
    /\ UNCHANGED <<cmdQ, dcfg, dconsole, dsnes, envVars, outstanding>>
    /\ UNCHANGED mtpVars

\* read_lo_rom_banks / read_hi_rom_banks: one chunk
DumpSendSnes ==
    /\ Running /\ dpc = "snes"
    /\ DSend(MsgData(DATA_CHANNEL_SIZE, <<"snes", dbank, dchunk>>))
    /\ SetPos(AfterSnes(dsnes, winCap, dbank, dchunk))
    /\ UNCHANGED <<cmdQ, dcfg, dconsole, dsnes, envVars, outstanding>>
    /\ UNCHANGED mtpVars

\* send Msg::End, back to receiver.receive()
DumpSendEnd ==
    /\ Running /\ dpc = "end"
    /\ DSend(MsgEnd)
    /\ SetPos(DPos("recv", 0, 0))
    /\ UNCHANGED <<cmdQ, dcfg, dconsole, dsnes, envVars, outstanding>>
    /\ UNCHANGED mtpVars

DumperStep ==
    \/ DumpStartNes \/ DumpStartSnes \/ DumpConfigChanged
    \/ DumpSendSetup \/ DumpSendHeader \/ DumpSendPrg \/ DumpSendChr
    \/ DumpSendSnes \/ DumpSendEnd


----------------------------------------------------------------------------
(* Protocol Engine: containers as bytes *)

ToLe16(n) == <<n % 256, (n \div 256) % 256>>
ToLe32(n) == <<n % 256, (n \div 256) % 256, (n \div 65536) % 256, (n \div 16777216) % 256>>
FromLe16(b) == b[1] + 256 * b[2]
FromLe32(b) == b[1] + 256 * b[2] + 65536 * b[3] + 16777216 * b[4]

\* buf[from..to] of the source (0-based, to exclusive)
Slice(buf, from, to) == SubSeq(buf, from + 1, to)

Zeros(n) == [i \in 1..n |-> 0]

\* 0xFFFFFFFF as the four bytes it is read from
WILDCARD == <<255, 255, 255, 255>>
STORAGE_ID == 65537

CT_COMMAND == 1
CT_DATA == 2
CT_RESPONSE == 3

RC_OK == 8193
RC_OPERATION_NOT_SUPPORTED == 8197
RC_INVALID_OBJECT_FORMAT == 8203
RC_STORE_NOT_AVAILABLE == 8211
RC_INVALID_PARENT_OBJECT == 8218
RC_OBJECT_TOO_LARGE == 43017

OP_GET_DEVICE_INFO == 4097
OP_OPEN_SESSION == 4098
OP_CLOSE_SESSION == 4099
OP_GET_STORAGE_IDS == 4100
OP_GET_STORAGE_INFO == 4101
OP_GET_NUM_OBJECTS == 4102
OP_GET_OBJECT_HANDLES == 4103
OP_GET_OBJECT_INFO == 4104
OP_GET_OBJECT == 4105
OP_DELETE_OBJECT == 4107
OP_SEND_OBJECT_INFO == 4108
OP_SEND_OBJECT == 4109

\* MtpClass::parse_mtp_command; "panic" is the slice &buf[12..length] out of range
ParseMtpCommand(buf, phase) ==
    LET length == FromLe32(Slice(buf, 0, 4))
        packet_type == FromLe16(Slice(buf, 4, 6))
    IN IF length < HEADER_LEN
       THEN [err |-> "CannotParseHeader", op_code |-> 0, transaction_id |-> 0, payload |-> <<>>]
       ELSE IF length > Len(buf)
       THEN [err |-> "panic", op_code |-> 0, transaction_id |-> 0, payload |-> <<>>]
       ELSE IF packet_type # phase
       THEN [err |-> "WrongPacketType", op_code |-> 0, transaction_id |-> 0, payload |-> <<>>]
       ELSE [err |-> "none",
             op_code |-> FromLe16(Slice(buf, 6, 8)),
             transaction_id |-> FromLe32(Slice(buf, 8, 12)),
             payload |-> Slice(buf, 12, length)]

----------------------------------------------------------------------------
(* The host: containers it sends on the bulk OUT endpoint *)

Container(declared, ctype, code, tid, payload) ==
    ToLe32(declared) \o ToLe16(ctype) \o ToLe16(code) \o ToLe32(tid) \o payload

Command(code, tid, payload) ==
    Container(HEADER_LEN + Len(payload), CT_COMMAND, code, tid, payload)

Tids == 1..MaxTid

\* payloads of GetObjectHandles: storage id, format-code count, codes, association handle
HandlesPayloads ==
    { ToLe32(STORAGE_ID) \o ToLe32(0) \o ToLe32(0),
      ToLe32(STORAGE_ID) \o ToLe32(1) \o ToLe16(12288) \o ToLe32(1),
      ToLe32(STORAGE_ID) \o ToLe32(1) \o ToLe16(12289) \o WILDCARD,
      WILDCARD \o ToLe32(1) \o ToLe16(12288) \o ToLe32(4),
      WILDCARD \o ToLe32(1) \o ToLe16(12289) \o WILDCARD,
      ToLe32(5) \o ToLe32(0) \o ToLe32(0) }

\* a session in which the host browses the storage and edits the configuration file
BrowseCommands ==
    { Command(op, t, <<>>) : op \in {OP_GET_DEVICE_INFO, OP_GET_NUM_OBJECTS}, t \in Tids }
    \cup { Command(op, 1, <<>>) :
              op \in {OP_OPEN_SESSION, OP_CLOSE_SESSION, OP_GET_STORAGE_IDS, OP_SEND_OBJECT} }
    \cup { Command(OP_GET_STORAGE_INFO, t, ToLe32(sid)) : sid \in {STORAGE_ID, 5}, t \in Tids }
    \cup { Command(OP_GET_STORAGE_INFO, 1, sid) : sid \in {<<>>, WILDCARD, ToLe32(0), ToLe32(65538)} }
    \cup { Command(OP_GET_OBJECT_HANDLES, 1, pl) : pl \in HandlesPayloads }
    \cup { Command(OP_GET_OBJECT_INFO, 1, ToLe32(h)) : h \in 1..6 }
    \cup { Command(OP_GET_OBJECT, t, ToLe32(h)) : h \in {1, 3, 6}, t \in Tids }
    \cup { Command(OP_GET_OBJECT, 1, ToLe32(4)) }
    \cup { Command(OP_DELETE_OBJECT, 1, h) : h \in {ToLe32(2), ToLe32(3), WILDCARD} }
    \cup { Command(OP_SEND_OBJECT_INFO, 1, ToLe32(sid) \o ToLe32(par)) :
             sid \in {STORAGE_ID, 5}, par \in {1, 4} }

\* a session in which the host pushes a configuration and reads the ROM objects
TransferCommands ==
    { Command(OP_GET_OBJECT, t, ToLe32(h)) : h \in {2, 5}, t \in Tids }
    \cup { Command(OP_SEND_OBJECT, 1, <<>>), Command(OP_GET_STORAGE_IDS, 1, <<>>) }

Sessions == {"browse", "transfer"}

\* containers the parser rejects: declared length below 12, wrong container type
HostMalformed ==
    { Container(0, CT_COMMAND, OP_GET_DEVICE_INFO, 1, <<>>),
      Container(11, CT_COMMAND, OP_GET_STORAGE_IDS, 1, <<>>),
      Container(HEADER_LEN, CT_DATA, OP_GET_DEVICE_INFO, 1, <<>>),
      Container(HEADER_LEN + 4, CT_RESPONSE, OP_DELETE_OBJECT, 2, ToLe32(3)) }

\* containers whose declared length exceeds the receive buffer
HostOversized ==
    { Container(MAX_PACKET_SIZE + 1, CT_COMMAND, OP_GET_DEVICE_INFO, 1, <<>>),
      Container(70000, CT_DATA, OP_GET_OBJECT, 1, ToLe32(2)) }

\* mtp_echo_task: the packet as it lies in the 64-byte receive buffer
RxBuffer(pkt) == pkt \o Zeros(MAX_PACKET_SIZE - Len(pkt))


----------------------------------------------------------------------------
(* Protocol Engine: data-in datasets (their lengths and the fields the claims read) *)

\* write_string: bytes written for a string of n characters
PtpStringLen(n) == IF n = 0 THEN 1 ELSE 1 + 2 * n + 2

DataSet(len, handles, size) == [len |-> len, handles |-> handles, size |-> size]
NoData == DataSet(0, <<>>, -1)

\* generate_device_info_response
DeviceInfoLen ==
    HEADER_LEN + 2 + 4 + 2 + PtpStringLen(18) + 2
    + (4 + 2 * 39) + (4 + 2 * 18) + (4 + 2 * 4) + 4 + (4 + 2 * 28)
    + PtpStringLen(7) + PtpStringLen(10) + PtpStringLen(3) + PtpStringLen(8)

\* generate_storage_id_response
StorageIdsLen == HEADER_LEN + 4 + 4

StorageInfoAnyStore(payload) == DataSet(50, <<>>, -1)
\* generate_storage_info_response
StorageInfoResponse(payload) ==
    IF Slice(payload, 0, 4) # ToLe32(STORAGE_ID)
    THEN NoData
    ELSE DataSet(HEADER_LEN + 2 + 2 + 2 + 8 + 8 + 4 + PtpStringLen(4) + PtpStringLen(0),
                 <<>>, -1)

\* object_format_codes_contains
ObjectFormatCodesContains(payload, needle) ==
    LET count == FromLe32(Slice(payload, 4, 8))
    IN \/ count = 0
       \/ \E i \in 0..(count - 1) :
             FromLe16(Slice(payload, 8 + 2 * i, 8 + 2 * i + 2)) = needle

\* object_handle_of_association_contains
ObjectHandleOfAssociationContains(payload, needle) ==
    LET count == FromLe32(Slice(payload, 4, 8))
        off == 8 + count * 2
        assoc == Slice(payload, off, off + 4)
    IN assoc = ToLe32(0) \/ assoc = needle

ConfigListed(del) == ~del

ObjectHandlesFixedStoreOnly(payload, del) ==
    IF Slice(payload, 0, 4) = ToLe32(STORAGE_ID)
          /\ ObjectFormatCodesContains(payload, 12289)
          /\ ObjectHandleOfAssociationContains(payload, WILDCARD)
    THEN DataSet(HEADER_LEN + 4 + 8, <<1, 4>>, -1)
    ELSE DataSet(HEADER_LEN + 4, <<>>, -1)
\* generate_object_handles_response
ObjectHandlesResponse(payload, del) ==
    LET storage == Slice(payload, 0, 4)
        storageOk == storage = WILDCARD \/ storage = ToLe32(STORAGE_ID)
        folders == IF storageOk /\ ObjectFormatCodesContains(payload, 12289)
                      /\ ObjectHandleOfAssociationContains(payload, WILDCARD)
                   THEN <<1, 4>> ELSE <<>>
        files == storageOk /\ ObjectFormatCodesContains(payload, 12288)
        nes == IF files /\ ObjectHandleOfAssociationContains(payload, ToLe32(1))
               THEN <<2>> \o (IF ConfigListed(del) THEN <<3>> ELSE <<>>)
               ELSE <<>>
        snes == IF files /\ ObjectHandleOfAssociationContains(payload, ToLe32(4))
                THEN <<5>> ELSE <<>>
        handles == folders \o nes \o snes
    IN DataSet(HEADER_LEN + 4 + 4 * Len(handles), handles, -1)

\* generate_object_info_response: fixed fields, filename, two dates, keywords
ObjectInfoLen(nameLen) ==
    HEADER_LEN + 52 + PtpStringLen(nameLen) + 2 * PtpStringLen(18) + PtpStringLen(1)

ConfigInfoSize(file) == file.size

ObjectInfoResponse(payload, file) ==
    LET h == Slice(payload, 0, 4)
    IN CASE h = ToLe32(1) -> DataSet(ObjectInfoLen(3), <<>>, 0)
         [] h = ToLe32(2) -> DataSet(ObjectInfoLen(7), <<>>, 32768 + 8192 + 16)
         [] h = ToLe32(3) -> DataSet(ObjectInfoLen(11), <<>>, ConfigInfoSize(file))
         [] h = ToLe32(4) -> DataSet(ObjectInfoLen(4), <<>>, 0)
         [] h = ToLe32(5) -> DataSet(ObjectInfoLen(7), <<>>, (65536 - 32768) * 32)
         [] OTHER -> NoData

\* generate_config_json_object_response
ConfigObjectResponse(file) == DataSet(HEADER_LEN + file.size, <<>>, file.size)

\* generate_delete_object_response: the new value of configuration_file_deleted
DeleteFlagKept(payload, del) == del
\* every object id setting the flag
DeleteFlagAnyObject(payload, del) == TRUE
DeleteObjectFlag(payload, del) ==
    IF Slice(payload, 0, 4) = ToLe32(3) \/ Slice(payload, 0, 4) = WILDCARD
    THEN TRUE ELSE del

\* generate_object_response: the console of a ROM handle, "" for the others
\* the folder handle 4 taken for the NES ROM
RomConsoleFolderToo(payload) ==
    CASE Slice(payload, 0, 4) \in {ToLe32(2), ToLe32(4)} -> "Nes"
      [] Slice(payload, 0, 4) = ToLe32(5) -> "Snes"
      [] OTHER -> ""
RomConsole(payload) ==
    CASE Slice(payload, 0, 4) = ToLe32(2) -> "Nes"
      [] Slice(payload, 0, 4) = ToLe32(5) -> "Snes"
      [] OTHER -> ""

\* DeleteObject given the data phase of GetStorageIDs
StaticDataPhaseDeleteData(cmd, del, file) ==
    CASE cmd.op_code \in {OP_GET_DEVICE_INFO} -> DataSet(DeviceInfoLen, <<>>, -1)
      [] cmd.op_code \in {OP_GET_STORAGE_IDS, OP_DELETE_OBJECT} ->
            DataSet(StorageIdsLen, <<>>, -1)
      [] cmd.op_code = OP_GET_STORAGE_INFO -> StorageInfoResponse(cmd.payload)
      [] cmd.op_code = OP_GET_OBJECT_HANDLES -> ObjectHandlesResponse(cmd.payload, del)
      [] cmd.op_code = OP_GET_OBJECT_INFO -> ObjectInfoResponse(cmd.payload, file)
      [] cmd.op_code = OP_GET_OBJECT ->
            IF Slice(cmd.payload, 0, 4) = ToLe32(3) THEN ConfigObjectResponse(file) ELSE NoData
      [] OTHER -> NoData

\* handle_response, data block, for the operations that await no channel
StaticDataPhase(cmd, del, file) ==
    CASE cmd.op_code = OP_GET_DEVICE_INFO -> DataSet(DeviceInfoLen, <<>>, -1)
      [] cmd.op_code = OP_GET_STORAGE_IDS -> DataSet(StorageIdsLen, <<>>, -1)
      [] cmd.op_code = OP_GET_STORAGE_INFO -> StorageInfoResponse(cmd.payload)
      [] cmd.op_code = OP_GET_OBJECT_HANDLES -> ObjectHandlesResponse(cmd.payload, del)
      [] cmd.op_code = OP_GET_OBJECT_INFO -> ObjectInfoResponse(cmd.payload, file)
      [] cmd.op_code = OP_GET_OBJECT ->
            IF Slice(cmd.payload, 0, 4) = ToLe32(3) THEN ConfigObjectResponse(file) ELSE NoData
      [] OTHER -> NoData

\* operations whose generator indexes the payload: cmd.payload[0..4] and beyond
PayloadNeeded(op) ==
    CASE op \in {OP_GET_STORAGE_INFO, OP_GET_OBJECT_INFO, OP_GET_OBJECT, OP_DELETE_OBJECT} -> 4
      [] op = OP_GET_OBJECT_HANDLES -> 12
      [] op = OP_SEND_OBJECT_INFO -> 8
      [] OTHER -> 0

\* the default arm answering operation-not-supported
ResponseCodeDefaultAnswers(op, dataLen) ==
    CASE op \in {OP_GET_DEVICE_INFO, OP_OPEN_SESSION, OP_CLOSE_SESSION, OP_GET_STORAGE_IDS,
                 OP_GET_OBJECT_HANDLES, OP_GET_OBJECT_INFO, OP_GET_OBJECT,
                 OP_DELETE_OBJECT, OP_SEND_OBJECT} -> RC_OK
      [] op = OP_GET_STORAGE_INFO -> IF dataLen = 0 THEN RC_STORE_NOT_AVAILABLE ELSE RC_OK
      [] OTHER -> RC_OPERATION_NOT_SUPPORTED

\* handle_response, response block: the code written, 0 when none is written
ResponseCode(op, dataLen) ==
    CASE op \in {OP_GET_DEVICE_INFO, OP_OPEN_SESSION, OP_CLOSE_SESSION, OP_GET_STORAGE_IDS,
                 OP_GET_OBJECT_HANDLES, OP_GET_OBJECT_INFO, OP_GET_OBJECT,
                 OP_DELETE_OBJECT, OP_SEND_OBJECT} -> RC_OK
      [] op = OP_GET_STORAGE_INFO -> IF dataLen = 0 THEN RC_STORE_NOT_AVAILABLE ELSE RC_OK
      [] OTHER -> 0

----------------------------------------------------------------------------
(* Protocol Engine: packets written to the bulk IN endpoint *)

NoBlock == [declared |-> 0, ctype |-> 0, code |-> 0, tid |-> 0, params |-> <<>>]

\* generate_ok_response_block / generate_error_response_block
ResponseBlock(code, tid) ==
    [declared |-> 12, ctype |-> CT_RESPONSE, code |-> code, tid |-> tid, params |-> <<>>]

Pkt(kind, off, len, ok, block) ==
    [kind |-> kind, off |-> off, len |-> len, ok |-> ok, block |-> block]

\* while offset < len { write_packet(&buf[offset..min(offset + max_packet_size, len)]); offset = end }
ChunkWrites(kind, len, oks, block) ==
    [i \in 1..CeilDiv(len, MAX_PACKET_SIZE) |->
        Pkt(kind, (i - 1) * MAX_PACKET_SIZE,
            Min(MAX_PACKET_SIZE, len - (i - 1) * MAX_PACKET_SIZE), oks[i], block)]

ZLP_MODULUS == 64

TrailingZlpNever(len) == FALSE
\* if offset > 0 && offset % 64 == 0
TrailingZlp(len) == len > 0 /\ len % ZLP_MODULUS = 0

\* write_response_buffer: number of write_packet calls
ResponseBufferWrites(len) ==
    CeilDiv(len, MAX_PACKET_SIZE) + (IF TrailingZlp(len) THEN 1 ELSE 0)

\* write_response_buffer
WriteResponseBuffer(len, oks) ==
    ChunkWrites("data", len, oks, NoBlock)
    \o (IF TrailingZlp(len)
        THEN <<Pkt("data", len, 0, oks[CeilDiv(len, MAX_PACKET_SIZE) + 1], NoBlock)>>
        ELSE <<>>)

\* outcomes of n consecutive write_packet calls, at most MaxFailures of them failing
OutcomesOf(n) ==
    { o \in [1..n -> BOOLEAN] : Cardinality({i \in 1..n : ~o[i]}) <= MaxFailures }
MaxWrites == 8
OutcomesTable == [n \in 0..MaxWrites |-> OutcomesOf(n)]
Outcomes(n) == OutcomesTable[n]


----------------------------------------------------------------------------
(* The configuration file: a compact JSON record of the five fields *)

\* capacity of the configuration buffer handed to MtpClass::new
ConfigCapacity == 512
\* let mut buf = [0u8; 1024] of handle_response
BUF_LEN == 1024

Digits(n) == IF n < 10 THEN 1 ELSE IF n < 100 THEN 2 ELSE IF n < 1000 THEN 3
             ELSE IF n < 10000 THEN 4 ELSE 5

\* serde_json_core::to_slice(&config): {"mapper":_,"prgsize":_,"chrsize":_,"prg":_,"chr":_}
JsonLen(c) ==
    47 + Digits(c.mapper) + Digits(c.prgsize) + Digits(c.chrsize) + Digits(c.prg) + Digits(c.chr)

JsonDoc(c) == [valid |-> TRUE, cfg |-> c, len |-> JsonLen(c)]
\* bytes that are no JSON record of the five fields
JunkDoc(n) == [valid |-> FALSE, cfg |-> DefaultConfig, len |-> n]

\* serde_json_core::from_slice::<DumperConfig>(&configuration_file[..configuration_file_size])
DecodeOk(file) == file.doc.valid /\ file.size = file.doc.len

\* configurations the host pushes
PushConfigs ==
    { [mapper |-> 0, prgsize |-> 0, chrsize |-> 1, prg |-> 16, chr |-> 8],
      [mapper |-> 4, prgsize |-> 8, chrsize |-> 0, prg |-> 256, chr |-> 0] }

\* the data-out container of SendObject as the host sends it: a junk document,
\* with and without the Data container type, when browsing; a configuration or
\* a junk document when transferring
SendObjectDataOuts(s) ==
    IF s = "browse"
    THEN { [bytes |-> Container(HEADER_LEN + 52, ct, OP_SEND_OBJECT, 1, Zeros(52)),
            doc |-> JunkDoc(52)] : ct \in {CT_DATA, CT_COMMAND} }
    ELSE { [bytes |-> Container(HEADER_LEN + JsonLen(c), CT_DATA, OP_SEND_OBJECT, 1,
                                Zeros(JsonLen(c))),
            doc |-> JsonDoc(c)] : c \in PushConfigs }
         \cup { [bytes |-> Container(HEADER_LEN + 52, CT_DATA, OP_SEND_OBJECT, 1, Zeros(52)),
                 doc |-> JunkDoc(52)] }

\* send_updated_dumper_config: the i-th message
ConfigChangedMsg(c, i) ==
    CASE i = 1 -> MsgChanged(PaddedField("mapper", 6), <<c.mapper, 0>>)
      [] i = 2 -> MsgChanged(PaddedField("prgsize", 7), <<c.prgsize, 0>>)
      [] i = 3 -> MsgChanged(PaddedField("chrsize", 7), <<c.chrsize, 0>>)
      [] i = 4 -> MsgChanged(PaddedField("prg", 3), ToNeBytes(c.prg))
      [] OTHER -> MsgChanged(PaddedField("chr", 3), ToNeBytes(c.chr))

CONFIG_FIELDS == 5

----------------------------------------------------------------------------
(* SendObjectInfo: the ObjectInfo dataset of the data-out phase *)

InfoDataSet(fmt, size, parent, atype, adesc, lenByte, name) ==
    [object_format |-> fmt, object_compressed_size |-> size, parent_object |-> parent,
     association_type |-> atype, association_description |-> adesc,
     filename_len_byte |-> lenByte, filename |-> name]

GoodInfo == InfoDataSet(12288, 54, 1, 0, 0, 12, "config.json")

InfoDataSets ==
    { GoodInfo,
      [GoodInfo EXCEPT !.object_format = 12289],
      [GoodInfo EXCEPT !.object_compressed_size = ConfigCapacity + 1],
      [GoodInfo EXCEPT !.parent_object = 4],
      [GoodInfo EXCEPT !.association_type = 1],
      [GoodInfo EXCEPT !.filename = "config.jsoo"],
      [GoodInfo EXCEPT !.filename_len_byte = 0, !.filename = ""] }

PANICS == -1

\* the checks of generate_send_object_info_response on the dataset; PANICS is
\* cmd.payload[52] as usize - 1 with an empty filename
SendObjectInfoCheck(ds) ==
    IF ds.filename_len_byte = 0 THEN PANICS
    ELSE IF ds.object_format # 12288 THEN RC_INVALID_OBJECT_FORMAT
    ELSE IF ds.object_compressed_size > ConfigCapacity THEN RC_OBJECT_TOO_LARGE
    ELSE IF ds.parent_object # 1 THEN RC_INVALID_PARENT_OBJECT
    ELSE IF ds.association_type # 0 THEN RC_OPERATION_NOT_SUPPORTED
    ELSE IF ds.association_description # 0 THEN RC_OPERATION_NOT_SUPPORTED
    ELSE IF ds.filename_len_byte - 1 # 11 \/ ds.filename # "config.json"
         THEN RC_OPERATION_NOT_SUPPORTED
    ELSE RC_OK

\* the response block generate_send_object_info_response writes itself
SendObjectInfoBlock(code, tid) ==
    IF code = RC_OK
    THEN [declared |-> 24, ctype |-> CT_RESPONSE, code |-> RC_OK, tid |-> tid,
          params |-> <<STORAGE_ID, 1, 3>>]
    ELSE ResponseBlock(code, tid)

\* generate_send_object_info_response: does it return before reading the data-out phase
SendObjectInfoEarlyReturn(payload) ==
    Slice(payload, 0, 4) # ToLe32(STORAGE_ID) /\ Slice(payload, 4, 8) # ToLe32(1)

NoDataOut == [parsed |-> FALSE, ds |-> GoodInfo]

\* the data-out container generate_send_object_info_response has read: parsed
\* as a Data container of operation 0x100c, with its ObjectInfo dataset
DataOutRead(payload, second, o) ==
    IF ~SendObjectInfoEarlyReturn(payload) /\ second
       /\ o.cmd.err = "none" /\ o.cmd.op_code = OP_SEND_OBJECT_INFO
    THEN [parsed |-> TRUE, ds |-> o.ds]
    ELSE NoDataOut


----------------------------------------------------------------------------
(* Protocol Engine task: mtp_echo_task and MtpClass::handle_response *)

HostPackets(s) ==
    IF s = "browse" THEN BrowseCommands \cup HostMalformed \cup HostOversized
    ELSE TransferCommands

\* mtp_echo_task: read_packet into the receive buffer, then parse_mtp_command
HostParsedTable ==
    [s \in Sessions |-> { ParseMtpCommand(RxBuffer(pkt), CT_COMMAND) : pkt \in HostPackets(s) }]
HostParsed == HostParsedTable[session]

NoRequest == [err |-> "none", op_code |-> 0, transaction_id |-> 0, payload |-> <<>>]

StaticOp(cmd) ==
    /\ cmd.op_code \notin {OP_SEND_OBJECT_INFO, OP_SEND_OBJECT}
    /\ ~(cmd.op_code = OP_GET_OBJECT /\ RomConsole(cmd.payload) # "")

\* the response phase of handle_response: its packets
ResponseWrites(op, tid, dataLen, oks) ==
    IF ResponseCode(op, dataLen) = 0 THEN <<>>
    ELSE ChunkWrites("resp", HEADER_LEN, oks, ResponseBlock(ResponseCode(op, dataLen), tid))

ResponseWriteCount(op, dataLen) == IF ResponseCode(op, dataLen) = 0 THEN 0 ELSE 1

\* a container the parser rejects: the request is dropped
MtpDrop ==
    /\ Running /\ mpc = "idle"
    /\ \E cmd \in HostParsed :
             /\ cmd.err \in {"CannotParseHeader", "WrongPacketType"}
             /\ req' = cmd
    /\ pkts' = <<>>
    /\ res' = NoData
    /\ UNCHANGED <<mpc, moff, mlen, deleted, cfgFile, cfgStep>>
    /\ dataOut' = NoDataOut
    /\ UNCHANGED <<cmdQ, dataQ, fixedVars, outstanding>>
    /\ UNCHANGED dumperVars

\* a declared length beyond the receive buffer: &buf[12..length] panics
MtpParsePanic ==
    /\ Running /\ mpc = "idle"
    /\ \E cmd \in HostParsed :
             /\ cmd.err = "panic"
             /\ req' = cmd
    /\ mpc' = "panic"
    /\ pkts' = <<>>
    /\ res' = NoData
    /\ UNCHANGED <<moff, mlen, deleted, cfgFile, cfgStep>>
    /\ dataOut' = NoDataOut
    /\ UNCHANGED <<cmdQ, dataQ, fixedVars, outstanding>>
    /\ UNCHANGED dumperVars

\* a payload shorter than the generator indexes: cmd.payload[0..4] panics
MtpHandlerPanic ==
    /\ Running /\ mpc = "idle"
    /\ \E cmd \in HostParsed :
             /\ cmd.err = "none"
             /\ Len(cmd.payload) < PayloadNeeded(cmd.op_code)
             /\ req' = cmd
    /\ mpc' = "panic"
    /\ pkts' = <<>>
    /\ res' = NoData
    /\ UNCHANGED <<moff, mlen, deleted, cfgFile, cfgStep>>
    /\ dataOut' = NoDataOut
    /\ UNCHANGED <<cmdQ, dataQ, fixedVars, outstanding>>
    /\ UNCHANGED dumperVars

\* handle_response for an operation that awaits no channel: data block,
\* write_response_buffer, response block
MtpHandleStatic ==
    /\ Running /\ mpc = "idle"
    /\ \E cmd \in HostParsed :
          LET data == StaticDataPhase(cmd, deleted, cfgFile)
              nd == ResponseBufferWrites(data.len)
              nr == ResponseWriteCount(cmd.op_code, data.len)
          IN /\ cmd.err = "none"
             /\ Len(cmd.payload) >= PayloadNeeded(cmd.op_code)
             /\ StaticOp(cmd)
             /\ req' = cmd
             /\ res' = data
             /\ deleted' = IF cmd.op_code = OP_DELETE_OBJECT
                           THEN DeleteObjectFlag(cmd.payload, deleted) ELSE deleted
             /\ \E oks \in Outcomes(nd + nr) :
                   pkts' = WriteResponseBuffer(data.len, oks)
                           \o ResponseWrites(cmd.op_code, cmd.transaction_id, data.len,
                                             [i \in 1..nr |-> oks[nd + i]])
    /\ UNCHANGED <<mpc, moff, mlen, cfgFile, cfgStep>>
    /\ dataOut' = NoDataOut
    /\ UNCHANGED <<cmdQ, dataQ, fixedVars, outstanding>>
    /\ UNCHANGED dumperVars

\* handle_response, GetObject of a ROM handle: generate_rom_object_response begins
MtpGetObjectRom ==
    /\ Running /\ mpc = "idle"
    /\ \E cmd \in HostParsed :
             /\ cmd.err = "none"
             /\ Len(cmd.payload) >= PayloadNeeded(cmd.op_code)
             /\ cmd.op_code = OP_GET_OBJECT /\ RomConsole(cmd.payload) # ""
             /\ req' = cmd
    /\ mpc' = "rom_start"
    /\ moff' = 0
    /\ mlen' = -1
    /\ pkts' = <<>>
    /\ res' = NoData
    /\ UNCHANGED <<deleted, cfgFile, cfgStep>>
    /\ dataOut' = NoDataOut
    /\ UNCHANGED <<cmdQ, dataQ, fixedVars, outstanding>>
    /\ UNCHANGED dumperVars

\* self.out_channel.send(Msg::Start{console}).await
RomSendStart ==
    /\ Running /\ mpc = "rom_start"
    /\ ChannelCanSend(cmdQ)
    /\ cmdQ' = ChannelSend(cmdQ, MsgStart(RomConsole(req.payload)))
    /\ mpc' = "rom_recv"
    /\ outstanding' = outstanding + 1
    /\ UNCHANGED <<req, moff, mlen, pkts, res, deleted, cfgFile, cfgStep>>
    /\ UNCHANGED <<dataQ, envVars>>
    /\ UNCHANGED dumperVars

\* Msg::DumpSetupData arm: the header of the data container
RomRecvSetup ==
    /\ Running /\ mpc = "rom_recv"
    /\ ChannelCanReceive(dataQ)
    /\ Head(dataQ).kind = "DumpSetupData"
    /\ dataQ' = Tail(dataQ)
    /\ mlen' = Head(dataQ).rom_size + HEADER_LEN
    /\ moff' = moff + HEADER_LEN
    /\ UNCHANGED <<mpc, req, pkts, res, deleted, cfgFile, cfgStep>>
    /\ UNCHANGED <<cmdQ, envVars, outstanding>>
    /\ UNCHANGED dumperVars

\* self.max_packet_size() - 1
RomPacketSize == MAX_PACKET_SIZE - 1

\* Msg::Data arm
RomRecvData ==
    /\ Running /\ mpc = "rom_recv"
    /\ ChannelCanReceive(dataQ)
    /\ Head(dataQ).kind = "Data"
    /\ dataQ' = Tail(dataQ)
    /\ LET length == Head(dataQ).length
           buffer_write_size == Min(length, RomPacketSize - moff)
           filled == moff + buffer_write_size
       IN IF filled = RomPacketSize
          THEN \E ok \in BOOLEAN :
                  /\ pkts' = Append(pkts, Pkt("data", Len(pkts) * RomPacketSize,
                                              RomPacketSize, ok, NoBlock))
                  /\ IF ok
                     THEN moff' = length - buffer_write_size /\ mpc' = mpc
                     ELSE moff' = 0 /\ mpc' = "respond"
          ELSE moff' = filled /\ pkts' = pkts /\ mpc' = mpc
    /\ UNCHANGED <<req, mlen, res, deleted, cfgFile, cfgStep>>
    /\ UNCHANGED <<cmdQ, envVars, outstanding>>
    /\ UNCHANGED dumperVars

\* Msg::End arm: if offset % 64 == 0
RomEndZlp(offset) == offset % ZLP_MODULUS = 0

\* Msg::End arm: flush, zero-length packet, break
RomRecvEnd ==
    /\ Running /\ mpc = "rom_recv"
    /\ ChannelCanReceive(dataQ)
    /\ Head(dataQ).kind = "End"
    /\ dataQ' = Tail(dataQ)
    /\ \E ok1, ok2 \in BOOLEAN :
          pkts' = pkts
                  \o (IF moff > 0
                      THEN <<Pkt("data", Len(pkts) * RomPacketSize, moff, ok1, NoBlock)>>
                      ELSE <<>>)
                  \o (IF RomEndZlp(moff)
                      THEN <<Pkt("data", Len(pkts) * RomPacketSize + moff, 0, ok2, NoBlock)>>
                      ELSE <<>>)
    /\ mpc' = "respond"
    /\ outstanding' = outstanding - 1
    /\ UNCHANGED <<req, moff, mlen, res, deleted, cfgFile, cfgStep>>
    /\ UNCHANGED <<cmdQ, envVars>>
    /\ UNCHANGED dumperVars

\* handle_response, response block, after a handler that awaited a channel
MtpRespond ==
    /\ Running /\ mpc = "respond"
    /\ \E ok \in BOOLEAN :
          pkts' = pkts \o ResponseWrites(req.op_code, req.transaction_id, 0, <<ok>>)
    /\ mpc' = "idle"
    /\ UNCHANGED <<req, moff, mlen, res, deleted, cfgFile, cfgStep>>
    /\ UNCHANGED <<cmdQ, dataQ, envVars, outstanding>>
    /\ UNCHANGED dumperVars


\* the data-out container of SendObjectInfo as the host sends it
InfoDataOuts ==
    { [ds |-> d, ctype |-> CT_DATA, code |-> OP_SEND_OBJECT_INFO, tid |-> 1] :
        d \in InfoDataSets }
    \cup { [ds |-> GoodInfo, ctype |-> CT_DATA, code |-> OP_SEND_OBJECT_INFO, tid |-> MaxTid],
           [ds |-> GoodInfo, ctype |-> CT_COMMAND, code |-> OP_SEND_OBJECT_INFO, tid |-> 1],
           [ds |-> GoodInfo, ctype |-> CT_DATA, code |-> OP_SEND_OBJECT, tid |-> 1] }

InfoDataOutBytes(o) ==
    Container(ObjectInfoLen(Len(o.ds.filename)), o.ctype, o.code, o.tid, <<>>)

\* the two read_packet calls into buffer[0..64] and buffer[64..128], then
\* parse_mtp_command over the whole buffer
ParseDataOut(bytes) == ParseMtpCommand(bytes \o Zeros(BUF_LEN - Len(bytes)), CT_DATA)

InfoDataOutsParsed ==
    { [ds |-> o.ds, cmd |-> ParseDataOut(InfoDataOutBytes(o))] : o \in InfoDataOuts }

SendObjectDataOutsParsed ==
    [s \in Sessions |->
        { [doc |-> d.doc, cmd |-> ParseDataOut(d.bytes)] : d \in SendObjectDataOuts(s) }]

\* generate_send_object_info_response: the code it answers with; 0 when it writes
\* nothing, PANICS when it panics
SendObjectInfoResult(payload, second, o) ==
    IF SendObjectInfoEarlyReturn(payload) THEN 0
    ELSE IF ~second THEN 0
    ELSE IF o.cmd.err = "panic" THEN PANICS
    ELSE IF o.cmd.err # "none" THEN 0
    ELSE IF o.cmd.op_code # OP_SEND_OBJECT_INFO THEN RC_OPERATION_NOT_SUPPORTED
    ELSE SendObjectInfoCheck(o.ds)

\* handle_response, SendObjectInfo
MtpSendObjectInfo ==
    /\ Running /\ mpc = "idle"
    /\ \E cmd \in HostParsed :
             /\ cmd.err = "none"
             /\ Len(cmd.payload) >= PayloadNeeded(cmd.op_code)
             /\ cmd.op_code = OP_SEND_OBJECT_INFO
             /\ req' = cmd
             /\ \E second \in BOOLEAN, o \in InfoDataOutsParsed, ok \in BOOLEAN :
                   LET code == SendObjectInfoResult(cmd.payload, second, o)
                       block == SendObjectInfoBlock(code, o.cmd.transaction_id)
                   IN /\ dataOut' = DataOutRead(cmd.payload, second, o)
                      /\ IF code = PANICS
                         THEN mpc' = "panic" /\ pkts' = <<>>
                         ELSE /\ mpc' = mpc
                              /\ pkts' = IF code = 0 THEN <<>>
                                         ELSE ChunkWrites("resp", block.declared, <<ok>>, block)
    /\ res' = NoData
    /\ UNCHANGED <<moff, mlen, deleted, cfgFile, cfgStep>>
    /\ UNCHANGED <<cmdQ, dataQ, fixedVars, outstanding>>
    /\ UNCHANGED dumperVars

\* generate_send_object_response: is the data-out phase stored
SendObjectStores(second, dout) ==
    second /\ dout.cmd.err = "none" /\ dout.cmd.op_code = OP_SEND_OBJECT

\* generate_send_object_response: the configuration file after the data-out phase
SendObjectFile(file, second, dout) ==
    IF SendObjectStores(second, dout)
    THEN [size |-> Min(Len(dout.cmd.payload), ConfigCapacity), doc |-> dout.doc]
    ELSE file

SendObjectForwardsAnyContent(file, second, dout) == SendObjectStores(second, dout)
\* generate_send_object_response: is send_updated_dumper_config called
SendObjectForwards(file, second, dout) ==
    SendObjectStores(second, dout) /\ DecodeOk(SendObjectFile(file, second, dout))

\* handle_response, SendObject, up to the first channel send
MtpSendObject ==
    /\ Running /\ mpc = "idle"
    /\ \E cmd \in HostParsed :
             /\ cmd.err = "none"
             /\ cmd.op_code = OP_SEND_OBJECT
             /\ req' = cmd
    /\ \E second \in BOOLEAN, dout \in SendObjectDataOutsParsed[session] :
          IF second /\ dout.cmd.err = "panic"
          THEN mpc' = "panic" /\ UNCHANGED <<cfgFile, cfgStep>>
          ELSE /\ cfgFile' = SendObjectFile(cfgFile, second, dout)
               /\ IF SendObjectForwards(cfgFile, second, dout)
                  THEN mpc' = "cfg_send" /\ cfgStep' = 1
                  ELSE mpc' = "respond" /\ cfgStep' = cfgStep
    /\ pkts' = <<>>
    /\ res' = NoData
    /\ UNCHANGED <<moff, mlen, deleted>>
    /\ dataOut' = NoDataOut
    /\ UNCHANGED <<cmdQ, dataQ, fixedVars, outstanding>>
    /\ UNCHANGED dumperVars

\* returning after the third send
CfgSendReturnsEarly ==
    /\ Running /\ mpc = "cfg_send"
    /\ ChannelCanSend(cmdQ)
    /\ cmdQ' = ChannelSend(cmdQ, ConfigChangedMsg(cfgFile.doc.cfg, cfgStep))
    /\ IF cfgStep < 3
       THEN cfgStep' = cfgStep + 1 /\ mpc' = mpc
       ELSE cfgStep' = 0 /\ mpc' = "respond"
    /\ UNCHANGED <<req, moff, mlen, pkts, res, deleted, cfgFile>>
    /\ UNCHANGED <<dataQ, envVars, outstanding>>
    /\ UNCHANGED dumperVars

\* send_updated_dumper_config: one self.out_channel.send(...).await
CfgSend ==
    /\ Running /\ mpc = "cfg_send"
    /\ ChannelCanSend(cmdQ)
    /\ cmdQ' = ChannelSend(cmdQ, ConfigChangedMsg(cfgFile.doc.cfg, cfgStep))
    /\ IF cfgStep < CONFIG_FIELDS
       THEN cfgStep' = cfgStep + 1 /\ mpc' = mpc
       ELSE cfgStep' = 0 /\ mpc' = "respond"
    /\ UNCHANGED <<req, moff, mlen, pkts, res, deleted, cfgFile>>
    /\ UNCHANGED <<dataQ, envVars, outstanding>>
    /\ UNCHANGED dumperVars

\* the steps of the Protocol Engine that wait for no host packet
MtpStep ==
    \/ RomSendStart \/ RomRecvSetup \/ RomRecvData \/ RomRecvEnd
    \/ MtpRespond \/ CfgSend

\* the steps that begin with a packet read from the host
HostStep ==
    \/ MtpDrop \/ MtpParsePanic \/ MtpHandlerPanic \/ MtpHandleStatic
    \/ MtpGetObjectRom \/ MtpSendObjectInfo \/ MtpSendObject

----------------------------------------------------------------------------
(* The composed system *)

InitCommon ==
    /\ cmdQ = <<>>
    /\ dataQ = <<>>
    /\ dpc = "recv"
    /\ dcfg = DefaultConfig
    /\ dconsole = "Nes"
    /\ dbank = 0
    /\ dchunk = 0
    /\ dsnes = [num_banks |-> 0, rom_type |-> 0]
    /\ dmon = "idle"
    /\ mpc = "idle"
    /\ req = NoRequest
    /\ moff = 0
    /\ mlen = -1
    /\ pkts = <<>>
    /\ res = NoData
    /\ deleted = FALSE
    /\ cfgFile = [size |-> JsonLen(DefaultConfig), doc |-> JsonDoc(DefaultConfig)]
    /\ cfgStep = 0
    /\ outstanding = 0
    /\ dataOut = NoDataOut

\* the bidirectional (Flex) lines of DumperClass, the eight d and the seven
\* d_snes lines each taken as one group
FlexLines == {"d", "ciram_ce", "irq", "ciram_a10", "d_snes"}

\* one pin operation on a group of lines: set_as_input, set_as_output,
\* set_level / set_low / set_high, is_high
PinOp(kind, lines) == [kind |-> kind, lines |-> lines]

\* DumperClass::new: Flex::new leaves every line unconfigured
BusReset ==
    [dir |-> [l \in FlexLines |-> "reset"], pc |-> "idle", todo |-> <<>>,
     last |-> PinOp("none", {}), dumps |-> <<>>]

\* no routine is run on its own in the composed system
NoRoutine == fn = "none" /\ input = 0 /\ output = [done |-> FALSE, pc |-> "entry"]

Init ==
    /\ InitCommon /\ winCap = MaxWindowChunks /\ session \in Sessions
    /\ NoRoutine /\ bus = BusReset

Next == DumperStep \/ MtpStep \/ HostStep

Spec == Init /\ [][Next]_vars

\* the executor polls every task that can make progress
FairSpec == Spec /\ WF_vars(DumperStep) /\ WF_vars(MtpStep)

----------------------------------------------------------------------------
(* Routines of the Dump Engine run on their own, over all their arguments *)

NotRun == [done |-> FALSE, pc |-> "entry"]
Returned(v) == [done |-> TRUE, value |-> v]

\* retry_read applied to the N samples its closure returns
MaxSamples == 4
SampleBytes == {0, 1, 255}

RECURSIVE RetryScan(_, _, _, _)
\* the outer loop of retry_read from index i on (indices from 1)
RetryScan(values, i, best_val, best_count) ==
    IF i > Len(values) THEN best_val
    ELSE LET count == 1 + Cardinality({j \in (i + 1)..Len(values) : values[j] = values[i]})
         IN IF count > best_count
            THEN RetryScan(values, i + 1, values[i], count)
            ELSE RetryScan(values, i + 1, best_val, best_count)

RetryReadFirstSample(values) == values[1]
\* retry_read::<F, N>
RetryRead(values) == RetryScan(values, 1, values[1], 1)

\* the output pins of the NES bus and the direction of d[0..8]; a holds
\* a[0..15) as a number, ppu_na13 is a[15]
NesPins(m2, pgr_ce, prg_rw, chr_rd, a, ppu_na13, d) ==
    [m2 |-> m2, pgr_ce |-> pgr_ce, prg_rw |-> prg_rw, chr_rd |-> chr_rd,
     a |-> a, ppu_na13 |-> ppu_na13, d |-> d]

\* the levels DumperClass::new gives the pins, d made inputs by dump_nes
NesPinsAtDump == NesPins("high", "high", "high", "high", 0, "high", "input")

\* set_address: a[index] takes bit index of the address for index 0..15,
\* a[15] is high when bit 13 is clear
SetAddress(address) ==
    << <<"a", address % 32768>>,
       <<"ppu_na13", IF (address \div 8192) % 2 = 0 THEN "high" ELSE "low">> >>

\* set_romsel: low when bit 15 of the address is set
SetRomsel(address) ==
    << <<"pgr_ce", IF address >= 32768 THEN "low" ELSE "high">> >>

\* the pin writes of read_prg_byte, in order, up to its return
ReadPrgByte(address) ==
    << <<"d", "input">>, <<"prg_rw", "high">>, <<"pgr_ce", "high">> >>
    \o SetAddress(address) \o << <<"m2", "high">> >> \o SetRomsel(address)

\* the pin writes of read_chr_byte
ReadChrByte(address) ==
    << <<"d", "input">>, <<"m2", "high">>, <<"pgr_ce", "high">> >>
    \o SetAddress(address) \o << <<"chr_rd", "low">>, <<"chr_rd", "high">> >>

\* write_prg_byte: its pin writes, the byte put on d by write_data and its
\* suspension points (Timer::after_micros(1).await), in order
WritePrgByteSteps(address, data) ==
    << <<"m2", "low">>, <<"pgr_ce", "high">>, <<"d", "output">>, <<"prg_rw", "low">>,
       <<"data", data>> >>
    \o SetAddress(address) \o << <<"m2", "high">> >> \o SetRomsel(address)
    \o << <<"await", 1>>, <<"m2", "low">>, <<"await", 1>>, <<"pgr_ce", "high">>,
          <<"prg_rw", "high">>, <<"d", "input">> >>
    \o SetAddress(0) \o << <<"m2", "high">> >>

\* the select line raised only after a second delay, as write_prg_byte does
WriteRegByteDelayed(address, data) ==
    << <<"m2", "low">>, <<"pgr_ce", "high">>, <<"d", "output">>, <<"prg_rw", "low">>,
       <<"data", data>> >>
    \o SetAddress(address)
    \o << <<"m2", "high">>, <<"pgr_ce", "low">>, <<"await", 1>>, <<"m2", "low">>,
          <<"await", 1>>, <<"pgr_ce", "high">>, <<"prg_rw", "high">>, <<"d", "input">> >>
    \o SetAddress(0) \o << <<"m2", "high">> >>
\* write_reg_byte: set_romsel_low_and_m2_high, set_romsel_high_and_m2_low and
\* the one Timer::after_micros(1).await after them
WriteRegByte(address, data) ==
    << <<"m2", "low">>, <<"pgr_ce", "high">>, <<"d", "output">>, <<"prg_rw", "low">>,
       <<"data", data>> >>
    \o SetAddress(address)
    \o << <<"m2", "high">>, <<"pgr_ce", "low">>, <<"m2", "low">>, <<"pgr_ce", "high">>,
          <<"await", 1>>, <<"prg_rw", "high">>, <<"d", "input">> >>
    \o SetAddress(0) \o << <<"m2", "high">> >>

\* write_mmc1_byte: five writes of data >> i (a u8), through write_reg_byte
\* for an address of 0xE000 or above
WriteMmc1Byte(address, data) ==
    LET bits(i) == (data \div Pow2(i)) % 256
    IN IF address >= 57344
       THEN WriteRegByte(address, bits(0)) \o WriteRegByte(address, bits(1))
            \o WriteRegByte(address, bits(2)) \o WriteRegByte(address, bits(3))
            \o WriteRegByte(address, bits(4))
       ELSE WritePrgByteSteps(address, bits(0)) \o WritePrgByteSteps(address, bits(1))
            \o WritePrgByteSteps(address, bits(2)) \o WritePrgByteSteps(address, bits(3))
            \o WritePrgByteSteps(address, bits(4))

\* the bytes write_mmc1_byte is run with
Mmc1Bytes == {0, 1, 12, 128, 255}

\* the pin writes among the steps of a byte operation
PinWrites(steps) == SelectSeq(steps, LAMBDA e : e[1] \notin {"await", "data"})

\* the pin writes of write_prg_byte
WritePrgByte(address) == PinWrites(WritePrgByteSteps(address, 0))

ByteOps == {"read_prg_byte", "read_chr_byte", "write_prg_byte"}

ByteOpWrites(f, address) ==
    CASE f = "read_prg_byte" -> ReadPrgByte(address)
      [] f = "read_chr_byte" -> ReadChrByte(address)
      [] f = "write_prg_byte" -> WritePrgByte(address)

RECURSIVE Drive(_, _)
\* the pins after a sequence of writes
Drive(pins, writes) ==
    IF writes = <<>> THEN pins
    ELSE Drive([pins EXCEPT ![Head(writes)[1]] = Head(writes)[2]], Tail(writes))

\* the addresses the byte operations are run with
ByteOpAddresses == {0, 1, 4096, 8192, 32767, 32768, 32769, 40961, 57344, 65535}

\* the pins a byte operation can find: those of the entry of the dump, or
\* those another byte operation left
PinsBefore ==
    {NesPinsAtDump} \cup
    { Drive(NesPinsAtDump, ByteOpWrites(f, a)) : f \in ByteOps, a \in ByteOpAddresses }

\* read_prg, mapper 4: `(1u16 << size) * 2` in a build with overflow checks
\* (a shift by 16 or more and a product above 65535 panic) and in one without
\* (the shift amount is taken modulo 16, the product modulo 65536)
Mmc3PrgBanks(size, overflow_checks) ==
    IF overflow_checks /\ (size >= 16 \/ Pow2(size) * 2 > 65535)
    THEN PANICS
    ELSE PrgBanks(4, size)

\* read_prg, mapper 0: `0x4000 * banks` with banks = 1 << size, the end of the
\* range of dump_bank_prg, a u16
NromPrgEnd(size, overflow_checks) ==
    IF overflow_checks /\ (size >= 16 \/ 16384 * Pow2(size) > 65535)
    THEN PANICS
    ELSE PrgWindow(0, size)

\* (from..to).step_by(DATA_CHANNEL_SIZE), one Data of buffer.len() bytes each
BankBytes(from, to) == CeilDiv(to - from, DATA_CHANNEL_SIZE) * DATA_CHANNEL_SIZE

\* read_prg: the bytes of the Data messages it sends, PANICS when it panics
ReadPrgBytes(mapper, size, overflow_checks) ==
    CASE mapper = 0 ->
            LET to == NromPrgEnd(size, overflow_checks)
            IN IF to = PANICS THEN PANICS ELSE BankBytes(0, to)
      [] mapper = 1 ->
            IF size # 1 /\ overflow_checks /\ size >= 8 THEN PANICS
            ELSE PrgBanks(1, size) * BankBytes(0, PrgWindow(1, size))
      [] mapper = 4 ->
            LET banks == Mmc3PrgBanks(size, overflow_checks)
            IN IF banks = PANICS \/ banks > 256 THEN PANICS
               ELSE banks * BankBytes(0, 8192)
      [] OTHER -> 0

\* read_chr: the bytes of the Data messages it sends
ReadChrBytes(mapper, size, overflow_checks) ==
    CASE mapper = 0 -> BankBytes(0, 8192)
      [] mapper = 4 ->
            IF overflow_checks /\ (size >= 16 \/ Pow2(size) * 4 > 65535) THEN PANICS
            ELSE IF ChrBanks(4, size) > 256 THEN PANICS
            ELSE ChrBanks(4, size) * BankBytes(4096, 5120)
      [] OTHER -> 0

\* the finalize step run for every mapper
ReadPrgEffectsAlwaysFinalize(mapper, size, overflow_checks) ==
    [writes |-> 0, finalize |-> TRUE]

\* read_prg: the number of register writes (write_prg_byte / write_reg_byte
\* calls, five per write_mmc1_byte) and whether the finalize step at its end
\* (set_address(0), set_phy2_high, set_romsel_high) is run
ReadPrgEffects(mapper, size, overflow_checks) ==
    CASE mapper = 0 -> [writes |-> 0, finalize |-> TRUE]
      [] mapper = 1 ->
            [writes |->
                IF size = 1 THEN 1
                ELSE IF overflow_checks /\ size >= 8 THEN PANICS
                ELSE LET banks == PrgBanks(1, size)
                     IN banks * (1 + 5 + (IF size > 4 THEN 5 ELSE 0) + 5)
                        + 5 * Cardinality({i \in 0..(banks - 1) : i > 15}),
             finalize |-> TRUE]
      [] mapper = 4 ->
            LET banks == Mmc3PrgBanks(size, overflow_checks)
            IN [writes |-> IF banks = PANICS \/ banks > 256 THEN PANICS ELSE 1 + 2 * banks,
                finalize |-> ~(banks = PANICS \/ banks > 256)]
      [] OTHER -> [writes |-> 0, finalize |-> FALSE]

\* dump_nes: the size it announces and the bytes of the Data messages it sends
\* up to End (PANICS when it never sends End); prg and chr are the bytes sent
\* by read_prg and read_chr, effects those of read_prg
NesDumpTotals(cfg, overflow_checks) ==
    LET prg == ReadPrgBytes(cfg.mapper, cfg.prgsize, overflow_checks)
        chr == IF cfg.chrsize > 0
               THEN ReadChrBytes(cfg.mapper, cfg.chrsize, overflow_checks) ELSE 0
    IN [rom_size |-> NesRomSize(cfg),
        data |-> IF prg = PANICS \/ chr = PANICS THEN PANICS ELSE 16 + prg + chr,
        header |-> NesHeaderMsg(cfg).length,
        prg |-> prg, chr |-> chr,
        effects |-> ReadPrgEffects(cfg.mapper, cfg.prgsize, overflow_checks)]

\* the configurations dump_nes is run with for its totals
NesMappers == {0, 1, 2, 4, 255}
NesSizeExponents == 0..8
NesPrgKb == {16, 32, 128, 256, 512}
NesChrKb == {0, 8, 32, 128}

\* check_cart_snes from the bytes read at 0xFFD5 and 0xFFD7: (num_banks,
\* rom_type); in a build with overflow checks `- 7` panics below 7 and
\* `rom_size as usize * 1024 * 1024` panics from 2^32 on (exponent 12), without
\* them both wrap (SnesNumBanks)
CheckCartSnes(type_byte, size_byte, overflow_checks) ==
    LET rom_type == SnesRomType(type_byte)
    IN [rom_type |-> rom_type,
        num_banks |-> IF overflow_checks /\ (size_byte < 7 \/ size_byte - 7 >= 12)
                      THEN PANICS
                      ELSE SnesNumBanks(size_byte, rom_type)]

\* read_rom_snes: the banks start..end it visits, and per bank the address of
\* the first chunk, the number of chunks and the length of each Data message;
\* `num_banks + 192` is a u8 sum
ReadRomSnes(num_banks, rom_type, overflow_checks) ==
    CASE rom_type = 0 ->
            [start |-> 0, end |-> num_banks, from |-> 32768,
             chunks |-> CeilDiv(65535 - 32768 + 1, DATA_CHANNEL_SIZE),
             length |-> Min(32768 - 1 + DATA_CHANNEL_SIZE, 65535) - 32768 + 1]
      [] rom_type = 1 ->
            [start |-> 192,
             end |-> IF overflow_checks /\ num_banks + 192 > 255 THEN PANICS
                     ELSE (num_banks + 192) % 256,
             from |-> 0,
             chunks |-> CeilDiv(65535 - 0 + 1, DATA_CHANNEL_SIZE),
             length |-> Min(0 + DATA_CHANNEL_SIZE - 1, 65535) - 0 + 1]
      [] OTHER -> [start |-> 0, end |-> 0, from |-> 0, chunks |-> 0, length |-> 0]

\* dump_snes: what get_cart_info_snes returns, the size announced and the
\* bytes of the Data messages up to End (PANICS when End is never sent)
SnesDumpTotals(type_byte, size_byte, overflow_checks) ==
    LET info == CheckCartSnes(type_byte, size_byte, overflow_checks)
        read == ReadRomSnes(info.num_banks, info.rom_type, overflow_checks)
    IN IF info.num_banks = PANICS
       THEN [rom_type |-> info.rom_type, num_banks |-> PANICS, rom_size |-> PANICS,
             data |-> PANICS]
       ELSE [rom_type |-> info.rom_type, num_banks |-> info.num_banks,
             rom_size |-> SnesRomSize(info.num_banks, info.rom_type),
             data |-> IF read.end = PANICS THEN PANICS
                      ELSE IF read.end > read.start
                           THEN (read.end - read.start) * read.chunks * read.length
                           ELSE 0]

\* the header bytes dump_snes is run with
SnesHeaderTypes == {0, 5, 32, 33, 49, 53, 58, 255}
SnesHeaderSizes == 0..20
SnesRomTypes == {0, 1, 4}

\* read_prg, mapper 0: dump_bank_prg(0x0, 0x4000 * banks, 0x8000): the bytes
\* sent and the first and last address read by dump_prg (base + address + x)
NromPrgDump(size, overflow_checks) ==
    LET to == NromPrgEnd(size, overflow_checks)
    IN IF to = PANICS
       THEN [to |-> PANICS, data |-> PANICS, first |-> PANICS, last |-> PANICS]
       ELSE [to |-> to, data |-> BankBytes(0, to),
             first |-> 32768 + 0 + 0,
             last |-> 32768 + (BankBytes(0, to) - DATA_CHANNEL_SIZE)
                            + (DATA_CHANNEL_SIZE - 1)]

\* generate_rom_object_response run on the messages of one dump, every
\* write_packet succeeding. A Data message carries the whole chunk buffer of
\* the Dump Engine; each of its bytes is tagged with the number of the message
\* and its place in the buffer.
MaxRomChunks == 8

DumpData(m) == [i \in 1..DATA_CHANNEL_SIZE |-> 100 * m + i]

\* DumpSetupData, the 16-byte header Data of dump_nes, the 32-byte Data of the
\* chunks, End
DumpMsgs(nes, chunks) ==
    <<MsgSetup((IF nes THEN 16 ELSE 0) + DATA_CHANNEL_SIZE * chunks)>>
    \o (IF nes THEN <<MsgData(16, DumpData(0))>> ELSE <<>>)
    \o [k \in 1..chunks |-> MsgData(DATA_CHANNEL_SIZE, DumpData(k))]
    \o <<MsgEnd>>

\* Msg::DumpSetupData arm: the header written at offset (st.buffer is
\* buffer[..offset])
RomSetupArm(st, rom_size, transaction_id) ==
    [st EXCEPT !.buffer = @ \o ToLe32(rom_size + HEADER_LEN) \o ToLe16(CT_DATA)
                            \o ToLe16(OP_GET_OBJECT) \o ToLe32(transaction_id)]

\* the remainder of a straddling chunk dropped after the packet write
RomDataArmNoRemainder(st, data, length) ==
    LET buffer_write_size == Min(length, RomPacketSize - Len(st.buffer))
        filled == st.buffer \o SubSeq(data, 1, buffer_write_size)
    IN IF Len(filled) = RomPacketSize
       THEN [buffer |-> <<>>, packets |-> Append(st.packets, filled)]
       ELSE [buffer |-> filled, packets |-> st.packets]

\* Msg::Data arm, write_packet Ok
RomDataArm(st, data, length) ==
    LET buffer_write_size == Min(length, RomPacketSize - Len(st.buffer))
        filled == st.buffer \o SubSeq(data, 1, buffer_write_size)
    IN IF Len(filled) = RomPacketSize
       THEN [buffer |-> IF buffer_write_size # length
                        THEN SubSeq(data, buffer_write_size + 1, Len(data))
                        ELSE <<>>,
             packets |-> Append(st.packets, filled)]
       ELSE [buffer |-> filled, packets |-> st.packets]

\* Msg::End arm: the packets written when the loop is left
RomEndFlush(st) ==
    st.packets
    \o (IF Len(st.buffer) > 0 THEN <<st.buffer>> ELSE <<>>)
    \o (IF RomEndZlp(Len(st.buffer)) THEN << <<>> >> ELSE <<>>)

RECURSIVE RomResponse(_, _, _)
\* the receive loop of generate_rom_object_response
RomResponse(msgs, st, transaction_id) ==
    IF msgs = <<>> THEN st.packets
    ELSE LET m == Head(msgs)
         IN CASE m.kind = "DumpSetupData" ->
                    RomResponse(Tail(msgs), RomSetupArm(st, m.rom_size, transaction_id),
                                transaction_id)
              [] m.kind = "Data" ->
                    RomResponse(Tail(msgs), RomDataArm(st, m.src, m.length), transaction_id)
              [] m.kind = "End" -> RomEndFlush(st)
              [] OTHER -> RomResponse(Tail(msgs), st, transaction_id)

\* MtpClass::new: serde_json_core::to_slice of {1, 3, 0, 128, 0}, the text
\* {"mapper":1,"prgsize":3,"chrsize":0,"prg":128,"chr":0}
DefaultConfigJson ==
    <<123, 34, 109, 97, 112, 112, 101, 114, 34, 58, 49, 44,
      34, 112, 114, 103, 115, 105, 122, 101, 34, 58, 51, 44,
      34, 99, 104, 114, 115, 105, 122, 101, 34, 58, 48, 44,
      34, 112, 114, 103, 34, 58, 49, 50, 56, 44,
      34, 99, 104, 114, 34, 58, 48, 125>>

\* the configuration buffer after MtpClass::new
ConfigBytesAtStart ==
    [bytes |-> DefaultConfigJson \o Zeros(ConfigCapacity - Len(DefaultConfigJson)),
     size |-> Len(DefaultConfigJson)]

\* the packets of one bulk OUT transfer: full packets, then a shorter one, an
\* empty one when the length is a multiple of the packet size
BulkOutPackets(bytes) ==
    [i \in 1..(Len(bytes) \div MAX_PACKET_SIZE + 1) |->
        SubSeq(bytes, (i - 1) * MAX_PACKET_SIZE + 1, Min(i * MAX_PACKET_SIZE, Len(bytes)))]

\* read_packet(&mut buffer[from..from + 64]) that received pkt
ReadInto(buffer, from, pkt) ==
    SubSeq(buffer, 1, from) \o pkt \o SubSeq(buffer, from + Len(pkt) + 1, Len(buffer))

\* generate_send_object_response: its two reads. The second one receives the
\* second packet of the transfer; after a transfer of a single packet it
\* receives whatever arrives next: the next command, or an error
SendObjectReads(packets, next) ==
    LET first == ReadInto(Zeros(BUF_LEN), 0, packets[1])
        pkt == IF Len(packets) >= 2 THEN packets[2]
               ELSE Command(OP_GET_STORAGE_IDS, 2, <<>>)
        ok == Len(packets) >= 2 \/ next = "command"
    IN [buffer |-> IF ok THEN ReadInto(first, MAX_PACKET_SIZE, pkt) ELSE first,
        n |-> IF ok THEN Len(pkt) ELSE PANICS]

\* generate_send_object_response: the configuration buffer and its size after
\* the match on the second read, the parse and the operation code
SendObjectBytes(file, read) ==
    LET cmd == ParseMtpCommand(read.buffer, CT_DATA)
        size == Min(Len(cmd.payload), ConfigCapacity)
    IN IF read.n > 0 /\ cmd.err = "none" /\ cmd.op_code = OP_SEND_OBJECT
       THEN [bytes |-> SubSeq(cmd.payload, 1, size) \o Zeros(ConfigCapacity - size),
             size |-> size]
       ELSE file

\* generate_config_json_object_response
ConfigJsonObjectResponse(file, transaction_id) ==
    Container(HEADER_LEN + file.size, CT_DATA, OP_GET_OBJECT, transaction_id,
              SubSeq(file.bytes, 1, file.size))

\* a payload of n bytes, none of them zero
PayloadOf(n) == [i \in 1..n |-> 1 + (i % 255)]

\* SendObject with a data-out container carrying PayloadOf(length), then
\* GetObject of handle 3: the data-in container
SendThenGetConfig(length, next, transaction_id) ==
    LET container == Container(HEADER_LEN + length, CT_DATA, OP_SEND_OBJECT, 1,
                             PayloadOf(length))
        file == SendObjectBytes(ConfigBytesAtStart,
                                SendObjectReads(BulkOutPackets(container), next))
    IN ConfigJsonObjectResponse(file, transaction_id)

\* payload lengths around the packet boundaries of the data-out container
RoundTripLengths == {0, 1, 51, 52, 53, 54, 115, 116, 117, 180, 500, ConfigCapacity}

\* the PRG and CHR sizes dump_nes is run with
HeaderSizesKb == {0, 8, 16, 128, 256, 2040, 4080, 4096, 65535}

\* what each single-step routine returns: retry_read its vote, check_cart_snes
\* the rom_type of the byte read at 0xFFD5, dump_nes its first Data message,
\* a byte operation the pins it leaves
FnApply(f, x) ==
    CASE f = "retry_read" -> RetryRead(x)
      [] f = "check_cart_snes" -> SnesRomType(x)
      [] f = "dump_nes" -> NesHeaderMsg(x)
      [] f \in ByteOps -> Drive(x.pins, ByteOpWrites(f, x.address))
      [] f = "dump_nes_totals" -> NesDumpTotals(x.cfg, x.overflow_checks)
      [] f = "read_prg_mapper0" -> NromPrgDump(x.size, x.overflow_checks)
      [] f = "generate_rom_object_response" ->
            RomResponse(DumpMsgs(x.nes, x.chunks), [buffer |-> <<>>, packets |-> <<>>],
                        x.transaction_id)
      [] f = "dump_snes" -> SnesDumpTotals(x.type_byte, x.size_byte, x.overflow_checks)
      [] f = "read_rom_snes" -> ReadRomSnes(x.num_banks, x.rom_type, x.overflow_checks)
      [] f = "send_object_get_object" ->
            SendThenGetConfig(x.length, x.next, x.transaction_id)
      [] f = "write_mmc1_byte" -> WriteMmc1Byte(x.address, x.data)

FnCall ==
    /\ fn \in {"retry_read", "check_cart_snes", "dump_nes", "dump_nes_totals",
               "dump_snes", "read_rom_snes", "read_prg_mapper0",
               "generate_rom_object_response", "send_object_get_object",
               "write_mmc1_byte"} \cup ByteOps
    /\ ~output.done
    /\ output' = Returned(FnApply(fn, input))
    /\ UNCHANGED <<fn, input, bus, sysVars>>

ReadPrgState(pc, banks, bank, writes, unlocks, data, ended) ==
    [done |-> pc \in {"done", "panic"}, pc |-> pc, banks |-> banks, bank |-> bank,
     writes |-> writes, unlocks |-> unlocks, data |-> data, ended |-> ended]

\* read_prg, mapper 4, up to the first bank
ReadPrgBegin ==
    /\ fn = "read_prg" /\ output.pc = "entry"
    /\ LET banks == Mmc3PrgBanks(input.size, input.overflow_checks)
       IN output' = IF banks = PANICS \/ banks > 256
                    THEN ReadPrgState("panic", 0, 0, <<>>, 0, 0, FALSE)
                    ELSE ReadPrgState("bank", banks, 0, << <<40961, 128>> >>, 1, 0, FALSE)
    /\ UNCHANGED <<fn, input, bus, sysVars>>

\* read_prg, mapper 4: one turn of `for i in 0..banks`, with the Data
\* messages of dump_bank_prg(0x0, 0x2000, base)
ReadPrgBank ==
    /\ fn = "read_prg" /\ output.pc = "bank" /\ output.bank < output.banks
    /\ output' = ReadPrgState("bank", output.banks, output.bank + 1,
                              << <<32768, 6>>, <<32769, output.bank % 256>> >>,
                              output.unlocks,
                              output.data + CeilDiv(8192 - 0, DATA_CHANNEL_SIZE), FALSE)
    /\ UNCHANGED <<fn, input, bus, sysVars>>

\* read_prg returns; dump_nes skips read_chr (chrsize 0) and sends End
ReadPrgReturn ==
    /\ fn = "read_prg" /\ output.pc = "bank" /\ output.bank = output.banks
    /\ output' = ReadPrgState("done", output.banks, output.bank, <<>>,
                              output.unlocks, output.data, TRUE)
    /\ UNCHANGED <<fn, input, bus, sysVars>>

\* the arguments each routine is run with
FnInputs(f) ==
    CASE f = "check_cart_snes" -> 0..255
      [] f = "retry_read" -> UNION { [1..n -> SampleBytes] : n \in 1..MaxSamples }
      [] f = "read_prg" -> [size : 0..255, overflow_checks : BOOLEAN]
      [] f = "dump_nes" ->
            { [mapper |-> m, prgsize |-> 0, chrsize |-> 0, prg |-> p, chr |-> c] :
                m \in 0..255, p \in HeaderSizesKb, c \in HeaderSizesKb }
      [] f \in ByteOps -> [address : ByteOpAddresses, pins : PinsBefore]
      [] f = "dump_nes_totals" ->
            [cfg : [mapper : NesMappers, prgsize : NesSizeExponents,
                    chrsize : NesSizeExponents, prg : NesPrgKb, chr : NesChrKb],
             overflow_checks : BOOLEAN]
      [] f = "read_prg_mapper0" -> [size : NesSizeExponents, overflow_checks : BOOLEAN]
      [] f = "generate_rom_object_response" ->
            [nes : BOOLEAN, chunks : 0..MaxRomChunks, transaction_id : Tids]
      [] f = "dump_snes" ->
            [type_byte : SnesHeaderTypes, size_byte : SnesHeaderSizes,
             overflow_checks : BOOLEAN]
      [] f = "read_rom_snes" ->
            [num_banks : 0..255, rom_type : SnesRomTypes, overflow_checks : BOOLEAN]
      [] f = "send_object_get_object" ->
            [length : RoundTripLengths, next : {"command", "error"},
             transaction_id : Tids]
      [] f = "write_mmc1_byte" -> [address : ByteOpAddresses, data : Mmc1Bytes]

FnInit ==
    /\ InitCommon /\ winCap = MaxWindowChunks /\ session = "browse"
    /\ fn \in {"check_cart_snes", "retry_read", "dump_nes", "read_prg",
               "dump_nes_totals", "dump_snes", "read_rom_snes", "read_prg_mapper0",
               "generate_rom_object_response", "send_object_get_object",
               "write_mmc1_byte"}
             \cup ByteOps
    /\ input \in FnInputs(fn) /\ output = NotRun
    /\ bus = BusReset

FnNext == FnCall \/ ReadPrgBegin \/ ReadPrgBank \/ ReadPrgReturn

FnSpec == FnInit /\ [][FnNext]_vars

----------------------------------------------------------------------------
(* Bus Controller: the pin operations of the dumps on the bidirectional lines *)

MaxDumps == 2

SetWriteModeLevelOnly == <<PinOp("set_level", {"d"})>>
\* set_write_mode: per pin set_low(), then set_as_output()
SetWriteMode == <<PinOp("set_level", {"d"}), PinOp("set_as_output", {"d"})>>

\* read_prg_byte / read_chr_byte: set_mode_read, then read_data
ReadByte == <<PinOp("set_as_input", {"d"}), PinOp("is_high", {"d"})>>
\* write_prg_byte / write_reg_byte (write_mmc1_byte calls one of them five
\* times): set_write_mode, write_data, set_mode_read
WriteByte ==
    SetWriteMode \o <<PinOp("set_level", {"d"}), PinOp("set_as_input", {"d"})>>

\* dump_nes before its first send
DumpNesEntry ==
    <<PinOp("set_as_input", {"d"}), PinOp("set_as_input", {"ciram_ce"}),
      PinOp("set_as_input", {"irq"})>>

\* dump_snes before get_cart_info_snes
DumpSnesEntry ==
    <<PinOp("set_as_output", {"ciram_ce"}), PinOp("set_level", {"ciram_ce"}),
      PinOp("set_as_output", {"irq"}), PinOp("set_level", {"irq"}),
      PinOp("set_as_output", {"d"}), PinOp("set_level", {"d"})>>

SetAddressA ==
    <<PinOp("set_level", {"ciram_ce"}), PinOp("set_level", {"irq"}),
      PinOp("set_level", {"d"})>>
\* data_in / set_d_snes_pullup
DataIn == <<PinOp("set_as_input", {"d_snes"}), PinOp("set_as_input", {"ciram_a10"})>>
ReadSnesData == <<PinOp("is_high", {"d_snes"}), PinOp("is_high", {"ciram_a10"})>>

BusCallTo(pc, ops, console) == [pc |-> pc, todo |-> ops, console |-> console]

\* what the dump task does next from each position: at receive() a Start of
\* either console; in read_prg / read_chr a byte read, a register write or the
\* End; in get_cart_info_snes one address of the scan or check_cart_snes with
\* its data_in; in check_cart_snes one header byte or read_rom_snes with its
\* data_in; in read_lo_rom_banks / read_hi_rom_banks one byte or the End
BusCalls(pc) ==
    CASE pc = "idle" -> { BusCallTo("nes", DumpNesEntry, "Nes"),
                          BusCallTo("snes_scan", DumpSnesEntry, "Snes") }
      [] pc = "nes" -> { BusCallTo("nes", ReadByte, ""), BusCallTo("nes", WriteByte, ""),
                         BusCallTo("idle", <<>>, "") }
      [] pc = "snes_scan" -> { BusCallTo("snes_scan", SetAddressA, ""),
                               BusCallTo("snes_header", DataIn, "") }
      [] pc = "snes_header" -> { BusCallTo("snes_header", SetAddressA \o ReadSnesData, ""),
                                 BusCallTo("snes_rom", DataIn, "") }
      [] pc = "snes_rom" -> { BusCallTo("snes_rom", SetAddressA \o ReadSnesData, ""),
                              BusCallTo("idle", <<>>, "") }

\* the routine in progress has returned: the next one is entered
BusCallNext ==
    /\ bus.todo = <<>>
    /\ \E c \in BusCalls(bus.pc) :
          /\ c.console # "" => Len(bus.dumps) < MaxDumps
          /\ bus' = [bus EXCEPT !.pc = c.pc, !.todo = c.todo,
                                !.dumps = IF c.console # "" THEN Append(@, c.console) ELSE @]
    /\ UNCHANGED <<fn, input, output, sysVars>>

\* the next pin operation of the routine in progress
BusPinOp ==
    /\ bus.todo # <<>>
    /\ LET op == Head(bus.todo)
       IN bus' = [bus EXCEPT
                    !.todo = Tail(@),
                    !.last = op,
                    !.dir = [l \in FlexLines |->
                               IF l \in op.lines /\ op.kind = "set_as_input" THEN "input"
                               ELSE IF l \in op.lines /\ op.kind = "set_as_output" THEN "output"
                               ELSE @[l]]]
    /\ UNCHANGED <<fn, input, output, sysVars>>

BusInit ==
    /\ InitCommon /\ winCap = MaxWindowChunks /\ session = "browse"
    /\ NoRoutine /\ bus = BusReset

BusNext == BusCallNext \/ BusPinOp

BusSpec == BusInit /\ [][BusNext]_vars

----------------------------------------------------------------------------
(* Properties *)

\* C1: the messages of every dump are in order: one DumpSetupData first, then
\* Data, then one End that closes the dump; nothing of a dump is sent before its
\* DumpSetupData or after its End, and the engine is back at receive only with
\* no dump open
C1_DumpMessageOrder ==
    /\ dmon # "bad"
    /\ dpc = "recv" => dmon \in {"idle", "ended"}
    /\ dpc = "setup" => dmon = "started"
    /\ dpc = "header" => dmon = "setup"
    /\ dpc \in {"prg", "chr", "snes", "end"} => dmon \in {"setup", "data"}

\* a NES dump with a CHR section has run to its End
C1_Witness ==
    /\ dpc = "recv" /\ dmon = "ended" /\ dataQ = <<MsgEnd>>
    /\ dconsole = "Nes" /\ dcfg.chrsize > 0

\* C2: a Start is never sent while an earlier dump has not had its End consumed
\* by the Protocol Engine
C2_NoOverlap == outstanding <= 1

\* C3: a dump that has started and has not ended never leaves the whole system
\* without a step to take (it can always still run to its End), the mapper-4
\* abort apart
C3_DumpCanFinish ==
    (Running /\ dpc \notin {"recv", "panic"}) => ENABLED Next

\* C4: each channel holds at most one message, and a message is added only to an
\* empty channel
C4_SingleSlot ==
    [][/\ Len(cmdQ') <= 1 /\ Len(dataQ') <= 1
       /\ Len(cmdQ') > Len(cmdQ) => cmdQ = <<>>
       /\ Len(dataQ') > Len(dataQ) => dataQ = <<>>]_vars

\* both channels are full and both senders are suspended in send: the Protocol
\* Engine with the next configuration field, the Dump Engine with the next chunk
C4_Witness ==
    /\ Len(cmdQ) = 1 /\ mpc = "cfg_send" /\ cfgStep = 2
    /\ Len(dataQ) = 1 /\ dpc = "prg"

\* the zero-length packets among the written packets
ZlpCount(p) == Cardinality({i \in 1..Len(p) : p[i].kind = "data" /\ p[i].len = 0})

\* the step in which generate_rom_object_response receives Msg::End
RomEndArm ==
    /\ mpc = "rom_recv" /\ mpc' = "respond"
    /\ Len(dataQ) > 0 /\ Head(dataQ).kind = "End"

DataPackets(p) == SelectSeq(p, LAMBDA x : x.kind = "data")

\* C6: a statically generated data-in container of length L > 0 is written as
\* consecutive packets of the maximum packet size, the last one possibly
\* shorter, followed by exactly one zero-length packet iff L is a multiple of 64
C6_StaticFraming ==
    res.len > 0 =>
        LET L == res.len
            d == DataPackets(pkts)
            n == CeilDiv(L, MAX_PACKET_SIZE)
        IN /\ Len(d) = n + (IF L % 64 = 0 THEN 1 ELSE 0)
           /\ \A i \in 1..n :
                 /\ d[i].off = (i - 1) * MAX_PACKET_SIZE
                 /\ d[i].len = Min(MAX_PACKET_SIZE, L - d[i].off)
           /\ L % 64 = 0 => d[n + 1].len = 0

\* the configuration file, 52 bytes long, read back as a 64-byte container:
\* one full packet, the zero-length packet, the response
C6_Witness ==
    /\ req.op_code = OP_GET_OBJECT /\ res.len = 64
    /\ Len(pkts) = 3 /\ pkts[1].len = 64 /\ pkts[2].len = 0 /\ pkts[2].kind = "data"

\* C7: parse_mtp_command ends in a command or in one of the two typed errors,
\* and on an error the request is dropped: nothing is written, the engine waits
\* for the next packet
C7_ParseOutcomes ==
    /\ req.err \in {"none", "CannotParseHeader", "WrongPacketType"}
    /\ req.err # "none" => pkts = <<>> /\ mpc = "idle"

\* C8: once a request is handled, every packet write that failed was followed
\* by a write of the same packet
C8_FailedWriteRetried ==
    mpc = "idle" =>
        \A i \in 1..Len(pkts) :
            ~pkts[i].ok =>
                /\ i < Len(pkts)
                /\ pkts[i + 1].kind = pkts[i].kind
                /\ pkts[i + 1].off = pkts[i].off
                /\ pkts[i + 1].len = pkts[i].len

SupportedOps ==
    {OP_GET_DEVICE_INFO, OP_OPEN_SESSION, OP_CLOSE_SESSION, OP_GET_STORAGE_IDS,
     OP_GET_STORAGE_INFO, OP_GET_OBJECT_HANDLES, OP_GET_OBJECT_INFO, OP_GET_OBJECT,
     OP_DELETE_OBJECT, OP_SEND_OBJECT_INFO, OP_SEND_OBJECT}

TypedResponseCodes ==
    {RC_OK, RC_OPERATION_NOT_SUPPORTED, RC_INVALID_OBJECT_FORMAT, RC_STORE_NOT_AVAILABLE,
     RC_INVALID_PARENT_OBJECT, RC_OBJECT_TOO_LARGE}

\* C9: once a request for a supported operation is handled, the last packet
\* written is its one response container: type 3, declared length at least 12,
\* the request's transaction id, OK or a typed error code
C9_OneResponse ==
    (mpc = "idle" /\ req.err = "none" /\ req.op_code \in SupportedOps) =>
        /\ Cardinality({i \in 1..Len(pkts) : pkts[i].kind = "resp"}) = 1
        /\ pkts[Len(pkts)].kind = "resp"
        /\ pkts[Len(pkts)].block.ctype = CT_RESPONSE
        /\ pkts[Len(pkts)].block.declared >= 12
        /\ pkts[Len(pkts)].block.tid = req.transaction_id
        /\ pkts[Len(pkts)].block.code \in TypedResponseCodes

\* the request just handled is op with the 32-bit value h first in its payload
HandledWith(op, h) ==
    /\ mpc = "idle" /\ req.err = "none" /\ req.op_code = op
    /\ Len(req.payload) >= 4 /\ Slice(req.payload, 0, 4) = ToLe32(h)

\* C10: a DeleteObject naming handle 3 sets the delete flag, which no later step
\* clears; with the flag set every handle listing omits 3, while GetObjectInfo
\* of 3 still returns a dataset whose size field is the current content size
C10_SoftDelete ==
    /\ [](/\ HandledWith(OP_DELETE_OBJECT, 3) => deleted
          /\ (deleted /\ mpc = "idle" /\ req.err = "none"
                /\ req.op_code = OP_GET_OBJECT_HANDLES)
             => \A i \in 1..Len(res.handles) : res.handles[i] # 3
          /\ (deleted /\ HandledWith(OP_GET_OBJECT_INFO, 3))
             => res.len > 0 /\ res.size = cfgFile.size)
    /\ [][deleted => deleted']_vars

\* after the delete and a rewrite of the content to 52 bytes, GetObjectInfo of
\* handle 3 reports 52
C10_Witness ==
    /\ deleted /\ HandledWith(OP_GET_OBJECT_INFO, 3)
    /\ cfgFile.size = 52 /\ res.size = 52 /\ res.len > 0

\* the five fields in the order send_updated_dumper_config sends them, each
\* with the count of NUL bytes that pads its name to sixteen bytes
ConfigFieldOrder ==
    << <<"mapper", 10>>, <<"prgsize", 9>>, <<"chrsize", 9>>, <<"prg", 13>>, <<"chr", 13>> >>

ConfigChangedPending == cmdQ # <<>> /\ Head(cmdQ).kind = "DumpSetupDataChanged"

C12_UndecodablePush ==
    /\ [](~DecodeOk(cfgFile) => mpc # "cfg_send")
    /\ [][(/\ mpc = "idle" /\ mpc' \notin {"idle", "panic"}
           /\ req'.err = "none" /\ req'.op_code = OP_SEND_OBJECT
           /\ ~DecodeOk(cfgFile'))
            => (mpc' = "respond" /\ cmdQ' = cmdQ /\ dcfg' = dcfg)]_vars
    /\ [][(mpc = "respond" /\ mpc' = "idle" /\ req.op_code = OP_SEND_OBJECT)
            => /\ cmdQ' = cmdQ /\ dcfg' = dcfg
               /\ Len(pkts') = Len(pkts) + 1
               /\ pkts'[Len(pkts')].kind = "resp"
               /\ pkts'[Len(pkts')].block = ResponseBlock(RC_OK, req.transaction_id)]_vars

\* a junk document was pushed after a configuration: answered OK, the Dump
\* Engine still holds the configuration pushed before
C12_Witness ==
    /\ mpc = "idle" /\ req.err = "none" /\ req.op_code = OP_SEND_OBJECT
    /\ ~cfgFile.doc.valid /\ cfgFile.size = 52
    /\ pkts # <<>> /\ pkts[Len(pkts)].block.code = RC_OK
    /\ dcfg.prg = 16 /\ cmdQ = <<>>

\* the response the request just handled ended with: its last packet, a
\* response container with the given code
AnsweredWith(code) ==
    /\ mpc = "idle" /\ pkts # <<>>
    /\ pkts[Len(pkts)].kind = "resp"
    /\ pkts[Len(pkts)].block.ctype = CT_RESPONSE
    /\ pkts[Len(pkts)].block.code = code

\* C13: SendObjectInfo validates the storage id and the parent of the command
\* and then the dataset of the data-out phase, and every violation is answered
\* with a typed error: format other than 0x3000 invalid-object-format, size
\* above the capacity object-too-large, parent other than 1
\* invalid-parent-object, a non-zero association field or a file name other
\* than config.json (the empty name included) operation-not-supported; only a
\* request that passes every check is answered OK with (0x00010001, 1, 3)
C13_SendObjectInfoValidation ==
    (/\ req.err = "none" /\ req.op_code = OP_SEND_OBJECT_INFO
     /\ mpc \in {"idle", "panic"} /\ Len(req.payload) >= 8)
    => LET ds == dataOut.ds
           commandOk == /\ Slice(req.payload, 0, 4) = ToLe32(STORAGE_ID)
                        /\ Slice(req.payload, 4, 8) = ToLe32(1)
       IN IF ~commandOk
          THEN \E code \in TypedResponseCodes \ {RC_OK} : AnsweredWith(code)
          ELSE dataOut.parsed =>
                 IF ds.object_format # 12288 THEN AnsweredWith(RC_INVALID_OBJECT_FORMAT)
                 ELSE IF ds.object_compressed_size > ConfigCapacity
                      THEN AnsweredWith(RC_OBJECT_TOO_LARGE)
                 ELSE IF ds.parent_object # 1 THEN AnsweredWith(RC_INVALID_PARENT_OBJECT)
                 ELSE IF \/ ds.association_type # 0 \/ ds.association_description # 0
                         \/ ds.filename # "config.json"
                      THEN AnsweredWith(RC_OPERATION_NOT_SUPPORTED)
                 ELSE /\ AnsweredWith(RC_OK)
                      /\ pkts[Len(pkts)].block.params = <<STORAGE_ID, 1, 3>>

\* the request just handled is a GetStorageInfo carrying a storage id
StorageInfoHandled ==
    /\ mpc = "idle" /\ req.err = "none" /\ req.op_code = OP_GET_STORAGE_INFO
    /\ Len(req.payload) >= 4

\* C14: GetStorageInfo on the storage id 0x00010001 is answered with a
\* non-empty data-in container and OK; on every other storage id no data-in
\* packet is written and the response is store-not-available (0x2013)
C14_StorageInfo ==
    StorageInfoHandled =>
        IF Slice(req.payload, 0, 4) = <<1, 0, 1, 0>>
        THEN /\ DataPackets(pkts) # <<>>
             /\ DataPackets(pkts)[1].len > 0
             /\ AnsweredWith(RC_OK)
        ELSE /\ DataPackets(pkts) = <<>>
             /\ Len(pkts) = 1
             /\ AnsweredWith(8211)

\* the wildcard storage id was refused without a data phase
C14_Witness ==
    /\ StorageInfoHandled /\ Slice(req.payload, 0, 4) = WILDCARD
    /\ Len(pkts) = 1 /\ pkts[1].block.code = RC_STORE_NOT_AVAILABLE

\* the request just handled is a GetObjectHandles naming the storage (the fixed
\* id or the wildcard), the one format 0x3001 and the wildcard parent
FolderListingHandled ==
    /\ mpc = "idle" /\ req.err = "none" /\ req.op_code = OP_GET_OBJECT_HANDLES
    /\ Len(req.payload) = 14
    /\ Slice(req.payload, 0, 4) \in {<<1, 0, 1, 0>>, <<255, 255, 255, 255>>}
    /\ Slice(req.payload, 4, 8) = <<1, 0, 0, 0>>
    /\ Slice(req.payload, 8, 10) = <<1, 48>>
    /\ Slice(req.payload, 10, 14) = <<255, 255, 255, 255>>

\* C15: GetObjectHandles with the fixed storage id or the wildcard, a format
\* list holding only 0x3001 and the wildcard parent returns the handles 1 and 4
\* in ascending order and nothing else, with a count of 2, whatever the delete flag
C15_FolderListing ==
    FolderListingHandled =>
        /\ res.handles = <<1, 4>>
        /\ res.len = 12 + 4 + 4 * 2
        /\ Len(DataPackets(pkts)) = 1 /\ DataPackets(pkts)[1].len = 24
        /\ AnsweredWith(RC_OK)

\* the folders were listed through the wildcard storage id after the
\* configuration file was deleted
C15_Witness ==
    /\ FolderListingHandled /\ Slice(req.payload, 0, 4) = WILDCARD
    /\ deleted /\ res.handles = <<1, 4>>

\* C19: the cartridge type for every byte v read at 0xFFD5: 0x35 is ExHiROM
\* (4), 0x3A is HiROM (1), a byte whose top three bits are not 001 is LoROM (0),
\* any other byte is classified v & 1; so 0x05 is LoROM, 0x21 is 1, 0x20 is 0
C19_SnesClassification ==
    (fn = "check_cart_snes" /\ output.done) =>
        /\ output.value = (IF input = 53 THEN 4
                     ELSE IF input = 58 THEN 1
                     ELSE IF (input \div 32) % 8 # 1 THEN 0
                     ELSE input % 2)
        /\ (input = 5 => output.value = 0)
        /\ (input = 33 => output.value = 1)
        /\ (input = 32 => output.value = 0)

\* the byte 0x35, whose top three bits are 001 and whose low bit is 1, is ExHiROM
C19_Witness == fn = "check_cart_snes" /\ input = 53 /\ output.done /\ output.value = 4

Occurrences(s, v) == Cardinality({i \in DOMAIN s : s[i] = v})
FirstIndex(s, v) == CHOOSE i \in DOMAIN s : s[i] = v /\ \A j \in 1..(i - 1) : s[j] # v

\* C18: for every sequence of N >= 1 samples retry_read returns a value with
\* the highest number of occurrences, and among the values sharing that
\* number the one that occurs first; for N = 1 it returns the single sample
C18_MajorityVote ==
    (fn = "retry_read" /\ output.done) =>
        LET r == output.value
        IN /\ \E i \in DOMAIN input : input[i] = r
           /\ \A i \in DOMAIN input :
                 \/ Occurrences(input, input[i]) < Occurrences(input, r)
                 \/ /\ Occurrences(input, input[i]) = Occurrences(input, r)
                    /\ FirstIndex(input, r) <= FirstIndex(input, input[i])
           /\ (Len(input) = 1 => r = input[1])

\* a tie between two values, won by the one that was sampled first although
\* the other one was sampled last
C18_Witness ==
    /\ fn = "retry_read" /\ output.done
    /\ input = <<1, 0, 0, 1>> /\ output.value = 1

\* the low eight bits of n, the byte a header field holds
Byte(n) == n % 256

C16_Mmc3PrgDump ==
    (fn = "read_prg" /\ output.pc # "entry") =>
        IF input.size >= 8
        THEN output.pc = "panic" /\ output.data = 0 /\ ~output.ended
        ELSE /\ output.pc # "panic"
             /\ output.unlocks = 1
             /\ output.banks = 2 * (2 ^ input.size)
             /\ output.data * 32 = output.bank * 8192
             /\ (output.pc = "bank" /\ output.bank = 0 => output.writes = << <<40961, 128>> >>)
             /\ (output.pc = "bank" /\ output.bank > 0
                   => output.writes = << <<32768, 6>>, <<32769, output.bank - 1>> >>)
             /\ (output.pc = "done" => output.bank = output.banks /\ output.ended)

C21_ByteOpIdle ==
    (fn \in ByteOps /\ output.done) =>
        output.value = NesPins("high", "high", "high", "high", 0, "high", "input")

\* C22: during a Get object on a ROM-file handle every packet written before
\* End has exactly the maximum packet size (64 bytes)
C22_RomPacketsFull ==
    mpc = "rom_recv" =>
        \A i \in 1..Len(pkts) : pkts[i].len = MAX_PACKET_SIZE

\* identifiers that are none of the five padded field names
UnrecognisedFields == { <<"mapper", 9>>, <<"prgsiz", 10>>, <<"PRG", 13>>, <<"", 16>> }

\* C23: the configuration of the Dump Engine changes only in a step of the Dump
\* Engine task that consumes a DumpSetupDataChanged message while the task is
\* idle (at receive(), outside any dump, hence never between a Start and its
\* End); such a step changes at most the field the identifier names and leaves
\* the other four as they were, and an unrecognised identifier changes nothing
C23_ConfigFrame ==
    /\ [](\A f \in UnrecognisedFields, v \in {<<4>>, <<0, 1>>} :
             ApplyConfigChanged(dcfg, f, v) = dcfg)
    /\ [][dcfg' # dcfg =>
            /\ dpc = "recv" /\ dpc' = "recv"
            /\ ConfigChangedPending /\ cmdQ' = Tail(cmdQ)
            /\ UNCHANGED mtpVars
            /\ \A g \in {"mapper", "prgsize", "chrsize", "prg", "chr"}
                          \ {Head(cmdQ).field[1]} : dcfg'[g] = dcfg[g]]_vars

\* the first message of a push has been consumed: mapper is the pushed one,
\* the other four fields are still the defaults
C23_Witness ==
    /\ mpc = "cfg_send" /\ DecodeOk(cfgFile) /\ cfgFile.doc.cfg.mapper = 4
    /\ dcfg = [DefaultConfig EXCEPT !.mapper = 4] /\ dcfg # cfgFile.doc.cfg

\* C24: for every NES dump that reaches End, whatever configuration the
\* ConfigChanged messages left (the five fields are independent), the lengths
\* of the Data messages between SetupData and End add up to the size announced
\* in SetupData, ((PRG_KB + CHR_KB) x 1024) + 16
C24_NesAnnouncedSize ==
    (fn = "dump_nes_totals" /\ output.done /\ output.value.data # PANICS) =>
        /\ output.value.rom_size = ((input.cfg.prg + input.cfg.chr) * 1024) + 16
        /\ output.value.data = output.value.rom_size

\* C25: for every SNES dump that reaches End and every pair of header bytes,
\* the lengths of the Data messages between SetupData and End add up to the
\* size announced in SetupData (bank count a u8, HiROM end bank count + 192)
C25_SnesAnnouncedSize ==
    (fn = "dump_snes" /\ output.done /\ output.value.data # PANICS) =>
        output.value.data = output.value.rom_size

\* C28: SNES sizing, for every size byte b and every classified type: with
\* exponent b - 7 and 2^exponent Mbit, the bank count is the size in bytes
\* divided by 32 KB for LoROM and by 64 KB for every other type, and the
\* SetupData size is 32768 x bank count for LoROM, 65536 x bank count for
\* HiROM and 0 for any other type
C28_SnesSizing ==
    (fn = "dump_snes" /\ output.done /\ output.value.num_banks # PANICS) =>
        LET b == input.size_byte
            bytes == IF b >= 7 THEN Pow2(b - 7) * 131072 ELSE 131072 \div Pow2(7 - b)
            count == bytes \div (IF output.value.rom_type = 0 THEN 32768 ELSE 65536)
        IN /\ output.value.num_banks = count
           /\ output.value.rom_size =
                 CASE output.value.rom_type = 0 -> 32768 * count
                   [] output.value.rom_type = 1 -> 65536 * count
                   [] OTHER -> 0

\* C29: read_rom_snes, for every bank count n in 0..255: LoROM visits banks
\* 0..n-1 in order, 1024 Data messages of length 32 per bank from 0x8000 to
\* 0xFFFF; HiROM visits banks 192..192+n-1 in order, 2048 Data messages of
\* length 32 per bank from 0x0000 to 0xFFFF; any other type sends no Data
C29_SnesRead ==
    (fn = "read_rom_snes" /\ output.done) =>
        LET n == input.num_banks
            v == output.value
        IN CASE input.rom_type = 0 ->
                  /\ v.start = 0 /\ v.end = n
                  /\ v.from = 32768 /\ v.chunks = 1024 /\ v.length = 32
             [] input.rom_type = 1 ->
                  /\ v.start = 192 /\ v.end = 192 + n
                  /\ v.from = 0 /\ v.chunks = 2048 /\ v.length = 32
             [] OTHER -> v.end <= v.start \/ v.chunks = 0

\* C30: the mapper-0 PRG dump, for every PRG size exponent e, sends exactly
\* 16 KB x 2^e bytes as 32-byte Data messages read from consecutive addresses
\* starting at the PRG window base 0x8000, and every address it computes stays
\* inside 16 bits
C30_NromPrgDump ==
    (fn = "read_prg_mapper0" /\ output.done) =>
        /\ output.value.data = 16384 * Pow2(input.size)
        /\ output.value.data % DATA_CHANNEL_SIZE = 0
        /\ output.value.first = 32768
        /\ output.value.last = 32768 + 16384 * Pow2(input.size) - 1
        /\ output.value.last <= 65535

\* the Protocol Engine is suspended in out_channel.send: the command queue is full
MtpSendSuspended == mpc \in {"rom_start", "cfg_send"} /\ ~ChannelCanSend(cmdQ)

\* the Dump Engine is suspended in out_channel.send: the output queue is full
DumpSendSuspended ==
    dpc \in {"setup", "header", "prg", "chr", "snes", "end"} /\ ~ChannelCanSend(dataQ)

\* C26: the Protocol Engine is never suspended on a send to the command queue
\* while the Dump Engine is suspended on a send to the output queue, whatever
\* the host requests and whatever the outcome of each transport write
C26_NoMutualBlocking == ~(MtpSendSuspended /\ DumpSendSuspended)

RECURSIVE Concat(_)
Concat(seqs) == IF seqs = <<>> THEN <<>> ELSE Head(seqs) \o Concat(Tail(seqs))

\* the first `length` bytes of each Data message, in the order received
DataPayloads(msgs) ==
    Concat([i \in 1..Len(msgs) |->
              IF msgs[i].kind = "Data" THEN SubSeq(msgs[i].src, 1, msgs[i].length)
              ELSE <<>>])

\* C27: when every transport write succeeds, the non-empty packets written
\* during a Get object on a ROM-file handle, concatenated, are the 12-byte
\* data-container header (length = SetupData size + 12, type 2, code 0x1009,
\* the transaction id of the request) followed by the first `length` bytes of
\* each Data message in the order received: nothing lost, duplicated or
\* reordered where a chunk straddles a packet boundary
C27_RomStream ==
    (fn = "generate_rom_object_response" /\ output.done) =>
        LET msgs == DumpMsgs(input.nes, input.chunks)
            total == msgs[1].rom_size + 12
            tid == input.transaction_id
        IN Concat(output.value) =
              << total % 256, (total \div 256) % 256, (total \div 65536) % 256,
                 total \div 16777216, 2, 0, 9, 16,
                 tid % 256, (tid \div 256) % 256, (tid \div 65536) % 256,
                 tid \div 16777216 >>
              \o DataPayloads(msgs)

\* an NES transfer of three chunks: the second chunk straddles the first
\* packet boundary and the rest is flushed on End
C27_Witness ==
    /\ fn = "generate_rom_object_response" /\ output.done
    /\ input.nes /\ input.chunks = 3
    /\ Len(output.value) = 2 /\ Len(output.value[1]) = 63
    /\ output.value[1][63] = 203 /\ output.value[2][1] = 204
    /\ Len(output.value[2]) = 61

\* C31: with a mapper id other than 0, 1 or 4 the PRG dump sends no Data,
\* performs no register write and runs no finalize step, and nothing is
\* reported: the NES dump still sends SetupData, the 16-byte header Data and
\* End, and the response to the Get object is OK
C31_UnknownMapper ==
    (fn = "dump_nes_totals" /\ output.done /\ input.cfg.mapper \notin {0, 1, 4}) =>
        /\ output.value.prg = 0
        /\ output.value.effects = [writes |-> 0, finalize |-> FALSE]
        /\ output.value.rom_size = NesRomSize(input.cfg)
        /\ output.value.header = 16
        /\ output.value.data # PANICS /\ output.value.data = 16
        /\ ResponseCode(OP_GET_OBJECT, 0) = RC_OK

\* mapper 2 with a CHR exponent: only the header is sent before End
C31_Witness ==
    /\ fn = "dump_nes_totals" /\ output.done
    /\ input.cfg.mapper = 2 /\ input.cfg.chrsize = 1 /\ input.cfg.prg = 128
    /\ output.value.data = 16 /\ ~output.value.effects.finalize

\* C32: a Get object naming a folder handle (1 or 4) or an unknown handle
\* sends no Start, writes no data-in packet, changes no state of the Protocol
\* Engine and is answered with one OK response; a Start is sent only for a
\* Get object of handle 2 (NES) or 5 (SNES)
C32_GetObjectNoObject ==
    /\ [](\A h \in {1, 4, 6} :
            HandledWith(OP_GET_OBJECT, h) =>
               /\ DataPackets(pkts) = <<>> /\ Len(pkts) = 1
               /\ AnsweredWith(RC_OK)
               /\ pkts[1].block = ResponseBlock(RC_OK, req.transaction_id))
    /\ [][(/\ mpc = "idle" /\ mtpVars' # mtpVars
           /\ req'.err = "none" /\ req'.op_code = OP_GET_OBJECT
           /\ Len(req'.payload) >= 4
           /\ FromLe32(Slice(req'.payload, 0, 4)) \notin {2, 3, 5})
            => /\ mpc' = "idle" /\ cmdQ' = cmdQ /\ outstanding' = outstanding
               /\ deleted' = deleted /\ cfgFile' = cfgFile /\ cfgStep' = cfgStep]_vars
    /\ [][(cmdQ' # cmdQ /\ cmdQ' # <<>> /\ cmdQ'[Len(cmdQ')].kind = "Start")
            => /\ mpc = "rom_start" /\ req.op_code = OP_GET_OBJECT
               /\ \/ /\ Slice(req.payload, 0, 4) = ToLe32(2)
                     /\ cmdQ'[Len(cmdQ')].console = "Nes"
                  \/ /\ Slice(req.payload, 0, 4) = ToLe32(5)
                     /\ cmdQ'[Len(cmdQ')].console = "Snes"]_vars

\* a Get object of the folder handle 4 after the configuration file was
\* deleted: one response packet, nothing queued, the flag still set
C32_Witness ==
    /\ HandledWith(OP_GET_OBJECT, 4) /\ Len(pkts) = 1 /\ pkts[1].kind = "resp"
    /\ cmdQ = <<>> /\ deleted /\ dpc = "recv"

\* C33: a SendObject stores its data-out payload in the configuration file or
\* forwards DumpSetupDataChanged messages only when the request handled just
\* before it was a SendObjectInfo answered OK; after any other request it
\* leaves the configuration file, its size and the Dump Engine's configuration
\* as they were
C33_SendObjectAfterInfo ==
    [][(/\ mpc = "idle" /\ req'.err = "none" /\ req'.op_code = OP_SEND_OBJECT
        /\ (cfgFile' # cfgFile \/ mpc' = "cfg_send"))
        => (/\ req.err = "none" /\ req.op_code = OP_SEND_OBJECT_INFO
            /\ AnsweredWith(RC_OK))]_vars

\* C34: whenever no configuration push is under way (the Protocol Engine is
\* not between the five sends and no DumpSetupDataChanged waits on the command
\* channel), the content GetObject serves for handle 3 decodes to exactly the
\* Dump Engine's current configuration
C34_ConfigFileMatches ==
    (mpc # "cfg_send" /\ ~ConfigChangedPending)
        => (DecodeOk(cfgFile) /\ cfgFile.doc.cfg = dcfg)


\* C35: a SendObject whose data-out container carries a payload P of at most
\* the capacity of the configuration buffer, followed by a GetObject of
\* handle 3, returns a data-in container that declares 12 + Len(P) bytes and
\* whose payload is P, for every length of P from 0 to the capacity
C35_ConfigRoundTrip ==
    (fn = "send_object_get_object" /\ output.done /\ input.next = "command") =>
        /\ FromLe32(Slice(output.value, 0, 4)) = HEADER_LEN + input.length
        /\ Slice(output.value, HEADER_LEN, Len(output.value)) = PayloadOf(input.length)

\* C36: whenever the Dump Engine takes a Start from the command channel, no
\* configuration push is partly applied: a push the Protocol Engine has begun
\* has sent none of its five messages yet, and the Dump Engine's configuration
\* is the initial one or one pushed as a whole, the latest one when the stored
\* file decodes and no push is waiting to send
C36_StartAfterWholePush ==
    [][(dpc = "recv" /\ dpc' = "setup") =>
          /\ Head(cmdQ).kind = "Start"
          /\ (mpc = "cfg_send" => cfgStep = 1)
          /\ dcfg \in PushConfigs \cup {DefaultConfig}
          /\ (mpc # "cfg_send" /\ DecodeOk(cfgFile)) => dcfg = cfgFile.doc.cfg
          /\ dcfg' = dcfg]_vars

\* a dump started after the push of {4, 8, 0, 256, 0}, all five fields applied
C36_Witness ==
    /\ dpc = "setup" /\ mpc = "rom_recv" /\ cmdQ = <<>>
    /\ DecodeOk(cfgFile) /\ dcfg = cfgFile.doc.cfg /\ dcfg.prg = 256

\* C37: the delete flag is false at start, changes only from false to true and
\* only in the handling of a DeleteObject naming handle 3 or 0xFFFFFFFF, and
\* while it is set every handle listing omits handle 3, also after SendObjectInfo
\* and SendObject have been handled
C37_DeleteFlagMonotonic ==
    /\ ~deleted
    /\ [][deleted' # deleted =>
             /\ ~deleted /\ deleted' /\ mpc = "idle"
             /\ req'.err = "none" /\ req'.op_code = OP_DELETE_OBJECT
             /\ Slice(req'.payload, 0, 4) \in {ToLe32(3), WILDCARD}]_vars
    /\ [][(deleted /\ mpc = "idle" /\ req.err = "none"
             /\ req.op_code \in {OP_SEND_OBJECT_INFO, OP_SEND_OBJECT}
             /\ req'.err = "none" /\ req'.op_code = OP_GET_OBJECT_HANDLES /\ mpc' = "idle")
            => \A i \in 1..Len(res'.handles) : res'.handles[i] # 3]_vars

\* the folder listing handled with the flag set and the 52 bytes of a SendObject
\* stored: it names the NES ROM only
C37_Witness ==
    /\ deleted /\ mpc = "idle" /\ req.err = "none" /\ req.op_code = OP_GET_OBJECT_HANDLES
    /\ cfgFile.size = 52 /\ res.handles = <<2>>

\* C38: handling a DeleteObject leaves the configuration buffer and its size
\* as they are and sends nothing to the Dump Engine; the delete flag becomes
\* true when the object id is 3 or 0xFFFFFFFF and is unchanged for any other
\* id; no data-in packet is written and the one packet written is the response
\* block OK with the transaction id of the request
C38_DeleteObjectFrame ==
    [][(/\ mpc = "idle" /\ req'.err = "none" /\ req'.op_code = OP_DELETE_OBJECT
        /\ Len(req'.payload) >= 4 /\ mpc' # "panic")
        => /\ cfgFile' = cfgFile /\ cfgStep' = cfgStep
           /\ cmdQ' = cmdQ /\ outstanding' = outstanding /\ mpc' = "idle"
           /\ deleted' = (deleted \/ Slice(req'.payload, 0, 4) \in {ToLe32(3), WILDCARD})
           /\ DataPackets(pkts') = <<>> /\ Len(pkts') = 1
           /\ pkts'[1].block = ResponseBlock(RC_OK, req'.transaction_id)]_vars

\* DeleteObject of handle 2 answered OK with the flag still false and the 52
\* bytes of an earlier SendObject still stored
C38_Witness ==
    /\ HandledWith(OP_DELETE_OBJECT, 2) /\ ~deleted /\ cfgFile.size = 52
    /\ Len(pkts) = 1 /\ AnsweredWith(RC_OK)

\* C39: a request whose operation code handle_response does not handle writes
\* no packet, neither data nor response, sends nothing to the Dump Engine and
\* leaves the delete flag, the configuration buffer, its size and the push
\* position as they are
C39_UnhandledOperation ==
    /\ []((mpc = "idle" /\ req.err = "none" /\ req.op_code \notin SupportedOps
             /\ req.op_code # 0) => pkts = <<>>)
    /\ [][(mpc = "idle" /\ req'.err = "none" /\ req'.op_code \notin SupportedOps
             /\ req'.op_code # 0)
            => /\ mpc' = "idle" /\ pkts' = <<>> /\ res' = NoData
               /\ deleted' = deleted /\ cfgFile' = cfgFile /\ cfgStep' = cfgStep
               /\ cmdQ' = cmdQ /\ outstanding' = outstanding]_vars

\* GetNumObjects (0x1006) handled after a delete and a SendObject: nothing written
C39_Witness ==
    /\ mpc = "idle" /\ req.err = "none" /\ req.op_code = OP_GET_NUM_OBJECTS
    /\ req.transaction_id = 2 /\ pkts = <<>> /\ deleted /\ cfgFile.size = 52

\* the four line events of the race-avoiding write, in order
RegisterPulse == << <<"m2", "high">>, <<"pgr_ce", "low">>, <<"m2", "low">>, <<"pgr_ce", "high">> >>

\* C40: a mapper-1 write to an address of 0xE000 or above is five register
\* writes; in each the clock line is set high, the select line low, the clock
\* line low and the select line high one right after the other with no
\* suspension point between them, and the only suspension point of the write
\* is the delay that follows the select line going high
C40_RegisterWriteOrder ==
    (fn = "write_mmc1_byte" /\ output.done /\ input.address >= 57344) =>
        LET t == output.value
            awaits == {i \in DOMAIN t : t[i][1] = "await"}
            selects == {i \in DOMAIN t : t[i] = <<"pgr_ce", "low">>}
        IN /\ Cardinality(awaits) = 5 /\ Cardinality(selects) = 5
           /\ \A w \in awaits : w > 4 /\ SubSeq(t, w - 4, w - 1) = RegisterPulse
           /\ \A i \in selects : i + 3 \in awaits
           /\ \A i \in DOMAIN t :
                 t[i] = <<"m2", "high">> =>
                    \/ i + 1 \in selects
                    \/ i = Len(t) \/ t[i + 1] = <<"m2", "low">>

\* the value 12 written to 0xFFFF: five register writes carrying 12, 6, 3, 1, 0
C40_Witness ==
    /\ fn = "write_mmc1_byte" /\ output.done /\ input.address = 65535 /\ input.data = 12
    /\ SelectSeq(output.value, LAMBDA e : e[1] = "data")
         = << <<"data", 12>>, <<"data", 6>>, <<"data", 3>>, <<"data", 1>>, <<"data", 0>> >>
    /\ Len(SelectSeq(output.value, LAMBDA e : e[1] = "await")) = 5

====
